---- MODULE Spec2Model ----
(***************************************************************************)
(* License-plate recognition pipeline of the garage application:           *)
(*   src/plate_detector.py          WorkingPlateDetector                   *)
(*   src/routes/detection_routes.py the /detect endpoint                   *)
(*                                                                         *)
(* Texts are sequences of one-character strings.  Confidences are exact    *)
(* decimal fractions held as integers in units of 1/Scale.                 *)
(***************************************************************************)
EXTENDS Integers, Sequences, FiniteSets, TLC

\* ------------------------------------------------------------------------
\* Bounds of the model
\* ------------------------------------------------------------------------
MaxConfLen == 3      \* longest raw confidence string fed to _safe_conf
MaxTokens == 2       \* longest token list one recognizer call returns
MaxCands == 2        \* most contours findContours returns

\* Units per 1.0 of a confidence (a representation choice, exact for the
\* decimal strings up to MaxConfLen + 1 characters).
Scale == 10 ^ 5

\* Python's None (a tuple, so that it compares with texts and results)
None == << "None" >>

\* ------------------------------------------------------------------------
\* Characters
\* ------------------------------------------------------------------------
UpperSeq ==
    << "A", "B", "C", "D", "E", "F", "G", "H", "I", "J", "K", "L", "M",
       "N", "O", "P", "Q", "R", "S", "T", "U", "V", "W", "X", "Y", "Z" >>
LowerSeq ==
    << "a", "b", "c", "d", "e", "f", "g", "h", "i", "j", "k", "l", "m",
       "n", "o", "p", "q", "r", "s", "t", "u", "v", "w", "x", "y", "z" >>
DigitSeq == << "0", "1", "2", "3", "4", "5", "6", "7", "8", "9" >>
\* Arabic-Indic and Extended Arabic-Indic digits, named by code point.
ArabicSeq ==
    << "U+0660", "U+0661", "U+0662", "U+0663", "U+0664",
       "U+0665", "U+0666", "U+0667", "U+0668", "U+0669" >>
PersianSeq ==
    << "U+06F0", "U+06F1", "U+06F2", "U+06F3", "U+06F4",
       "U+06F5", "U+06F6", "U+06F7", "U+06F8", "U+06F9" >>

Range(f) == { f[i] : i \in DOMAIN f }
IndexOf(f, c) == CHOOSE i \in DOMAIN f : f[i] = c

UpperLetters == Range(UpperSeq)
LowerLetters == Range(LowerSeq)
AsciiDigits == Range(DigitSeq)
\* Characters matched by \s in a Python 3 str pattern (those the model uses).
Whitespace == { " ", "\t", "\n" }

\* ------------------------------------------------------------------------
\* _safe_conf  (src/plate_detector.py:61-73)
\* ------------------------------------------------------------------------
RECURSIVE LStrip(_)
LStrip(s) ==
    IF s # << >> /\ Head(s) \in Whitespace THEN LStrip(Tail(s)) ELSE s

RECURSIVE RStrip(_)
RStrip(s) ==
    IF s # << >> /\ s[Len(s)] \in Whitespace
    THEN RStrip(SubSeq(s, 1, Len(s) - 1))
    ELSE s

\* str.strip()
Strip(s) == RStrip(LStrip(s))

RECURSIVE DigitsValue(_)
\* The integer a sequence of ASCII digits denotes.
DigitsValue(ds) ==
    IF ds = << >> THEN 0
    ELSE 10 * DigitsValue(SubSeq(ds, 1, Len(ds) - 1))
         + (IndexOf(DigitSeq, ds[Len(ds)]) - 1)

AllDigits(s) == \A i \in DOMAIN s : s[i] \in AsciiDigits

\* float(s) for a str s: [k |-> "num", n |-> value * Scale], [k |-> "nan"],
\* [k |-> "inf", sign |-> 1 or -1], or [k |-> "ValueError"].
\* Grammar of Python's float(): surrounding whitespace, an optional sign,
\* then "nan", "inf", "infinity", or decimal digits with at most one point
\* and at least one digit (exponents and digit-group underscores use
\* characters outside the model's alphabet and are rejected here).
Num(n) == [ k |-> "num", n |-> n ]
NaN == [ k |-> "nan" ]
Inf(sgn) == [ k |-> "inf", sign |-> sgn ]
ValueError == [ k |-> "ValueError" ]

ToLower(u) ==
    [ i \in DOMAIN u |->
        IF u[i] \in UpperLetters THEN LowerSeq[IndexOf(UpperSeq, u[i])] ELSE u[i] ]

\* the position of the first point of u, or Len(u) + 1
PointPos(u) ==
    IF \E i \in DOMAIN u : u[i] = "."
    THEN CHOOSE i \in DOMAIN u : u[i] = "." /\ \A j \in 1 .. i - 1 : u[j] # "."
    ELSE Len(u) + 1

ParseDecimal(ip, fp, sgn) ==
    IF AllDigits(ip) /\ AllDigits(fp) /\ Len(ip) + Len(fp) >= 1
    THEN Num(sgn * (DigitsValue(ip) * Scale
                    + (DigitsValue(fp) * Scale) \div (10 ^ Len(fp))))
    ELSE ValueError

ParseUnsigned(u, low, sgn, p) ==
    IF low = << "n", "a", "n" >> THEN NaN
    ELSE IF low \in { << "i", "n", "f" >>,
                       << "i", "n", "f", "i", "n", "i", "t", "y" >> }
    THEN Inf(sgn)
    ELSE ParseDecimal(SubSeq(u, 1, p - 1), SubSeq(u, p + 1, Len(u)), sgn)

ParseBody(u, sgn) == ParseUnsigned(u, ToLower(u), sgn, PointPos(u))

ParseSigned(t) ==
    IF t # << >> /\ Head(t) \in { "-", "+" }
    THEN ParseBody(Tail(t), IF Head(t) = "-" THEN -1 ELSE 1)
    ELSE ParseBody(t, 1)

ParseFloat(s) == ParseSigned(Strip(s))

\* Python's builtin min(a, b) and max(a, b) on floats: the first argument is
\* kept unless the second compares strictly smaller (larger); every
\* comparison with nan is False.
FloatLess(a, b) ==
    CASE a.k = "nan" \/ b.k = "nan" -> FALSE
      [] a.k = "inf" /\ b.k = "inf" -> a.sign < b.sign
      [] a.k = "inf" -> a.sign < 0
      [] b.k = "inf" -> b.sign > 0
      [] OTHER -> a.n < b.n
PyMin(a, b) == IF FloatLess(b, a) THEN b ELSE a
PyMax(a, b) == IF FloatLess(a, b) THEN b ELSE a

\* line 70: v / 100.0
Div100(v) == IF v.k = "num" THEN Num(v.n \div 100) ELSE v

\* lines 69-70: if v > 1.0: v = v / 100.0
Rescale(v) == IF FloatLess(Num(Scale), v) THEN Div100(v) ELSE v

\* line 71: max(0.0, min(1.0, v))
Clamp(v) == PyMax(Num(0), PyMin(Num(Scale), v)).n

\* lines 68-73: float(s) raising is caught and gives 0.0
SafeConfFloat(f) == IF f = ValueError THEN 0 ELSE Clamp(Rescale(f))

\* lines 66-68
SafeConfStr(s) ==
    IF s = << >> \/ s = << "-", "1" >> THEN 0 ELSE SafeConfFloat(ParseFloat(s))

\* WorkingPlateDetector._safe_conf: the normalized confidence of a raw
\* recognizer confidence val (None or the characters of str(val)), in units
\* of 1/Scale.
safe_conf(val) == IF val = None THEN 0 ELSE SafeConfStr(Strip(val))

\* ------------------------------------------------------------------------
\* clean_text  (src/plate_detector.py:75-86)
\* ------------------------------------------------------------------------
\* str.translate(trans): Arabic-Indic digits become ASCII digits.
Translate(c) ==
    IF c \in Range(ArabicSeq) THEN DigitSeq[IndexOf(ArabicSeq, c)]
    ELSE IF c \in Range(PersianSeq) THEN DigitSeq[IndexOf(PersianSeq, c)]
    ELSE c

\* str.upper() of one character; the sharp s upper-cases to two letters.
Upper(c) ==
    IF c \in LowerLetters THEN << UpperSeq[IndexOf(LowerSeq, c)] >>
    ELSE IF c = "U+00DF" THEN << "S", "S" >>
    ELSE << c >>

RECURSIVE FlatMap(_, _)
FlatMap(Op(_), s) ==
    IF s = << >> THEN << >> ELSE Op(Head(s)) \o FlatMap(Op, Tail(s))

RECURSIVE Filter(_, _)
Filter(Keep(_), s) ==
    IF s = << >> THEN << >>
    ELSE (IF Keep(Head(s)) THEN << Head(s) >> ELSE << >>)
         \o Filter(Keep, Tail(s))

\* line 81: text.translate(trans).upper(), character by character
TranslateUpper(c) == Upper(Translate(c))
\* line 83: re.sub(r'[^A-Z0-9\-\s]', '', s) keeps these
Allowed(c) == c \in UpperLetters \cup AsciiDigits \cup { "-" } \cup Whitespace
\* line 85: re.sub(r'[\-\s]+', '', s) keeps these
NotSeparator(c) == c \notin { "-" } \cup Whitespace

RECURSIVE FirstSeparatorDropped(_)
FirstSeparatorDropped(s) ==
    IF s = << >> THEN << >>
    ELSE IF NotSeparator(Head(s)) THEN << Head(s) >> \o FirstSeparatorDropped(Tail(s))
    ELSE Tail(s)

\* Variant of clean_text: only the first hyphen or space is removed.
CleanTextFirstSeparator(text) ==
    IF text = None \/ text = << >> THEN << >>
    ELSE FirstSeparatorDropped(Filter(Allowed, FlatMap(TranslateUpper, text)))

\* WorkingPlateDetector.clean_text; a falsy text (None or "") gives "".
clean_text(text) ==
    IF text = None \/ text = << >> THEN << >>
    ELSE Filter(NotSeparator, Filter(Allowed, FlatMap(TranslateUpper, text)))

\* ------------------------------------------------------------------------
\* is_valid_plate  (src/plate_detector.py:88-108)
\* ------------------------------------------------------------------------
\* str.isalpha() and str.isdigit() of one character
IsAlpha(c) == c \in UpperLetters \cup LowerLetters \cup { "U+00DF" }
IsDigit(c) == c \in AsciiDigits \cup Range(ArabicSeq) \cup Range(PersianSeq)
\* [A-Z] and \d of a Python 3 str pattern (\d matches any decimal digit)
ReAZ(c) == c \in UpperLetters
ReD(c) == IsDigit(c)
ReAZ09(c) == c \in UpperLetters \cup AsciiDigits

AllIn(s, lo, hi, P(_)) == \A k \in lo .. hi : P(s[k])

\* ^[A-Z]{a1,a2}\d{b1,b2}[A-Z]{c1,c2}  matched against the whole of s
Shape3(s, a1, a2, b1, b2, c1, c2) ==
    \E i \in a1 .. a2, j \in b1 .. b2, l \in c1 .. c2 :
        /\ Len(s) = i + j + l
        /\ AllIn(s, 1, i, ReAZ)
        /\ AllIn(s, i + 1, i + j, ReD)
        /\ AllIn(s, i + j + 1, i + j + l, ReAZ)

\* ^\d{a1,a2}[A-Z]{b1,b2}  matched against the whole of s
ShapeDL(s, a1, a2, b1, b2) ==
    \E i \in a1 .. a2, j \in b1 .. b2 :
        /\ Len(s) = i + j
        /\ AllIn(s, 1, i, ReD)
        /\ AllIn(s, i + 1, i + j, ReAZ)

\* re.match of a pattern ending in $: the pattern may also end just before
\* one trailing newline.
AtEnd(s, P(_)) ==
    \/ P(s)
    \/ s # << >> /\ s[Len(s)] = "\n" /\ P(SubSeq(s, 1, Len(s) - 1))

Pattern1(s) == Shape3(s, 1, 4, 1, 4, 0, 0)
Pattern2(s) == ShapeDL(s, 1, 4, 1, 4)
Pattern3(s) == Shape3(s, 1, 2, 1, 4, 0, 2)
Pattern4(s) == Len(s) \in 3 .. 10 /\ AllIn(s, 1, Len(s), ReAZ09)

MinPlateLen == 3
MaxPlateLen == 12

\* Variant: the alphanumeric fallback pattern is missing.
MatchesSpecific(text) ==
    \/ AtEnd(text, Pattern1)
    \/ AtEnd(text, Pattern2)
    \/ AtEnd(text, Pattern3)

\* lines 102-108: any(re.match(p, text) for p in patterns)
MatchesAny(text) ==
    \/ AtEnd(text, Pattern1)
    \/ AtEnd(text, Pattern2)
    \/ AtEnd(text, Pattern3)
    \/ AtEnd(text, Pattern4)

\* lines 96-99: at least a letter or a digit
HasLetterOrDigit(text) == \E k \in DOMAIN text : IsAlpha(text[k]) \/ IsDigit(text[k])

\* WorkingPlateDetector.is_valid_plate
is_valid_plate(text) ==
    IF text = None \/ text = << >> THEN FALSE
    ELSE IF Len(text) < MinPlateLen \/ Len(text) > MaxPlateLen THEN FALSE
    ELSE IF ~HasLetterOrDigit(text) THEN FALSE
    ELSE MatchesAny(text)

\* ------------------------------------------------------------------------
\* WorkingPlateDetector: state
\* ------------------------------------------------------------------------
VARIABLES
    initialized,   \* self.initialized
    call,          \* the top-level method running: "none", "detect_plate", "ocr_region"
    last,          \* the top-level method that returned last
    result,        \* what it returned: Pending, Raised or << text, conf >>
    dpc,           \* position in detect_plate: "idle", "cands", "tiles", "whole"
    image,         \* detect_plate's image after the resize: [w, h] or None
    cands,         \* candidates still to try, largest first
    tpos,          \* << yy, xx >> of the tile being scanned
    best_text,     \* detect_plate's best_text
    best_conf,     \* detect_plate's best_conf
    opc,           \* position in ocr_region: "idle", "cfg", "tok", "rot", "rtok", "ret"
    region,        \* ocr_region's argument: [x1, y1, x2, y2] or "direct"
    proc,          \* what preprocess_image returned: "cleaned" or "original"
    cfg,           \* index into configs (main loop), index into the angles (rotation)
    ntok,          \* len(texts) of the data being processed
    tok_i,         \* tokens of it processed so far
    o_best_text,   \* ocr_region's best_text
    o_best_conf,   \* ocr_region's best_conf
    oret,          \* ocr_region's return value
    validated,     \* history: cleaned tokens is_valid_plate accepted in this call
    seenFirst,     \* history: first valid token at the highest confidence, this ocr_region
    seenMax,       \* history: highest confidence of a valid token, this ocr_region
    threw,         \* history: configurations whose recognizer call raised, this ocr_region
    tried,         \* history: configurations whose recognizer call was made, this ocr_region
    tieSeen,       \* history: a later candidate equalled the highest confidence, this ocr_region
    dSeenFirst,    \* history: first region text at the highest confidence, this detect_plate
    dSeenMax,      \* history: highest confidence an ocr_region call of this detect_plate returned
    inspected,     \* history: the image was read in this call
    recognized,    \* history: the recognizer was invoked in this call
    candFound,     \* history: a candidate region yielded a plate
    tileFound,     \* history: a tile yielded a plate
    ranTiles,      \* history: ocr_region was called on a tile
    ranWhole,      \* history: ocr_region was called on the whole image
    scanned        \* history: the tiles handed to ocr_region in the running scan

dvars == << initialized, call, last, result, dpc, image, cands, tpos, best_text, best_conf >>
ovars == << opc, region, proc, cfg, ntok, tok_i, o_best_text, o_best_conf, oret >>
hvars == << validated, seenFirst, seenMax, threw, tried, tieSeen, dSeenFirst, dSeenMax,
            inspected, recognized, candFound, tileFound, ranTiles, ranWhole, scanned >>
detectorVars == << dvars, ovars, hvars >>

\* _safe_conf called on its own
VARIABLES
    conf_pc,       \* "called" or "returned"
    conf_val,      \* the argument val: None or the characters of str(val)
    conf_ret       \* the value returned, in units of 1/Scale

confVars == << conf_pc, conf_val, conf_ret >>

\* src/routes/detection_routes.py: the module's state and the /detect handler
VARIABLES
    yolo_model,    \* TRUE when YOLO("models/best.pt") loaded, FALSE for None
    ocr_reader,    \* TRUE when easyocr.Reader loaded, FALSE for None
    session,       \* the Flask session: detected_plate, detection_confidence
    rpc,           \* position in the handler: "idle", "predict", "box"
    r_img,         \* the decoded image img: [w, h] or None
    ti,            \* index into confidence_thresholds
    boxes,         \* results[0].boxes of the current threshold
    idx,           \* index of the box being processed
    best_plate,    \* the handler's best_plate
    score_best,    \* the handler's best_conf
    best_details,  \* the handler's best_details: yolo_conf, ocr_conf
    response,      \* the last response: status, success, message or plate
    consulted      \* history: the components invoked for this request

routeVars == << yolo_model, ocr_reader, session, rpc, r_img, ti, boxes, idx,
                best_plate, score_best, best_details, response, consulted >>

\* clean_text, is_valid_plate and clean_and_validate_plate_text called on
\* their own on one text
VARIABLES
    f_pc,          \* "idle", "start", "cleaned", "recleaned", "validated", "cleanvalid", "corrected"
    f_text,        \* the argument text: None or its characters
    f_cleaned,     \* clean_text(text)
    f_recleaned,   \* clean_text of that
    f_valid,       \* is_valid_plate(text)
    f_clean_text,  \* clean_and_validate_plate_text's clean_text, None before line 62
    f_final_text,  \* its final_text, None when it returned before line 136
    f_plate        \* what clean_and_validate_plate_text returned

textVars == << f_pc, f_text, f_cleaned, f_recleaned, f_valid,
               f_clean_text, f_final_text, f_plate >>

\* src/routes/car_routes.py: the car table and add_car's requests
VARIABLES
    car_rows,      \* the rows of table car: plate, vin
    add_n,         \* history: add_car requests answered so far, modulo 2
    add_body,      \* history: the JSON body of the last add_car request
    add_resp       \* the last add_car response: status, and the plate it was for

carVars == << car_rows, add_n, add_body, add_resp >>

\* src/routes/appointment_routes.py: the appointment table and the requests
\* to book_appointment and update_selected_appointment being served
VARIABLES
    appointment,   \* the rows of table appointment: id, slot (Date, Time)
    a_next_id,     \* the next AUTO_INCREMENT value of Appointment_id
    a_pc,          \* per client: "idle", "book" or "update" (past the slot check)
    a_req,         \* per client: the slot asked for and the appointment selected
    a_resp         \* per client: the status of its last response, 0 for none

apptVars == << appointment, a_next_id, a_pc, a_req, a_resp >>

vars == << detectorVars, confVars, routeVars, textVars, carVars, apptVars >>

Pending == << "pending" >>
Raised == << "raised" >>

\* self.min_confidence = 0.5
min_confidence == Scale \div 2
\* the tiled scan's early-exit confidence, 0.9
HighConf == (9 * Scale) \div 10

NumConfigs == 4
Angles == << -10, -5, 5, 10 >>

\* ------------------------------------------------------------------------
\* What the recognizer and the contour extraction can report
\* ------------------------------------------------------------------------
RawTexts ==
    { << >>,
      << " " >>,
      << "a", "b", "-", "1" >>,
      << "U+0663", "x", "7", "!" >>,
      << "x", "1" >> }
RawConfs ==
    { None,
      << "4", "0" >>,
      << "8", "0" >>,
      << "0", ".", "8" >>,
      << "9", "5" >> }

\* image.shape of the images given to detect_plate: [w, h]
Array(w, h) == [ k |-> "array", w |-> w, h |-> h ]
NoImage == [ k |-> "None" ]
Images == { Array(90, 25), Array(150, 40), Array(2400, 50) }
\* bounding rectangles cv2.boundingRect reports: << x, y, wc, hc >>
RawRects ==
    { << 0, 0, 40, 15 >>, << 45, 8, 45, 17 >>, << 3, 3, 10, 5 >>, << 5, 5, 30, 0 >> }

RECURSIVE SeqsUpTo(_, _)
\* the sequences over S of length at most n
SeqsUpTo(S, n) ==
    IF n = 0 THEN { << >> }
    ELSE LET shorter == SeqsUpTo(S, n - 1)
         IN  shorter \cup { Append(q, e) : q \in shorter, e \in S }

\* ------------------------------------------------------------------------
\* ocr_region  (src/plate_detector.py:110-163)
\* ------------------------------------------------------------------------
\* Python truthiness of a text: None and "" are falsy
Falsy(t) == t = None \/ t = << >>

\* line 127: not t or str(t).strip() == ""
Skipped(t) == Falsy(t) \/ Strip(t) = << >>

\* Variants of the comparison: a tie also replaces; only the first hit is kept.
ReplacesOnTie(conf, bc) == conf >= bc
ReplacesFirstOnly(conf, bc) == bc = 0

\* lines 133, 153: conf > best_conf
Replaces(conf, bc) == conf > bc

\* Variants of the test: without the validator; without the floor.
TokenHitUnvalidated(t, conf, cleaned, bc) ==
    /\ ~Skipped(t)
    /\ conf >= min_confidence
    /\ Replaces(conf, bc)
TokenHitNoFloor(t, conf, cleaned, bc) ==
    /\ ~Skipped(t)
    /\ is_valid_plate(cleaned)
    /\ Replaces(conf, bc)

\* lines 129-133: the token is not blank, passes the floor, is valid and
\* beats the best (conf and cleaned are its normalized confidence and text)
TokenHit(t, conf, cleaned, bc) ==
    /\ ~Skipped(t)
    /\ conf >= min_confidence
    /\ is_valid_plate(cleaned)
    /\ Replaces(conf, bc)

\* lines 126-135: one iteration of the token loop, from << best_text, best_conf >>
TokenUpdate(t, conf, cleaned, bt, bc) ==
    IF TokenHit(t, conf, cleaned, bc) THEN << cleaned, conf >> ELSE << bt, bc >>

\* lines 129, 132: what the loop body computes of a token (t, c) before it
\* compares: << t, self._safe_conf(c), self.clean_text(t) >>
Measured(t, c) == << t, safe_conf(c), clean_text(t) >>

\* A token that counts as a candidate: not blank, at or above the floor, valid.
IsCandidate(t, conf, cleaned) ==
    /\ t # None /\ Strip(t) # << >>
    /\ conf >= min_confidence
    /\ is_valid_plate(cleaned)

OcrIdle ==
    /\ opc' = "idle"
    /\ region' = [ k |-> "none" ]
    /\ proc' = "none"
    /\ cfg' = 0
    /\ ntok' = 0
    /\ tok_i' = 0
    /\ o_best_text' = None
    /\ o_best_conf' = 0
    /\ oret' = Pending

\* Variant: a failure of the preprocessing reaches ocr_region's outer handler.
OcrEnterAborting(r) ==
    /\ region' = r
    /\ \E raises \in BOOLEAN :
          IF raises
          THEN opc' = "ret" /\ proc' = "original" /\ oret' = << None, 0 >>
          ELSE opc' = "cfg" /\ proc' = "cleaned" /\ oret' = Pending
    /\ cfg' = 1
    /\ ntok' = 0
    /\ tok_i' = 0
    /\ o_best_text' = None
    /\ o_best_conf' = 0
    /\ seenFirst' = None
    /\ seenMax' = 0
    /\ threw' = { }
    /\ tried' = { }
    /\ tieSeen' = FALSE

\* lines 110-121: entry of ocr_region(r); preprocess_image returns the
\* cleaned image, or the original one when a step of it raised.
OcrEnter(r) ==
    /\ opc' = "cfg"
    /\ region' = r
    /\ proc' \in { "cleaned", "original" }
    /\ cfg' = 1
    /\ ntok' = 0
    /\ tok_i' = 0
    /\ o_best_text' = None
    /\ o_best_conf' = 0
    /\ oret' = Pending
    /\ seenFirst' = None
    /\ seenMax' = 0
    /\ threw' = { }
    /\ tried' = { }
    /\ tieSeen' = FALSE

\* The end of one configuration's token loop (lines 122, 137-138, 160):
\* the next configuration, the rotation fallback, or the return.
AfterTokens(bt, bc) ==
    /\ ntok' = 0
    /\ tok_i' = 0
    /\ IF cfg < NumConfigs
       THEN opc' = "cfg" /\ cfg' = cfg + 1 /\ oret' = oret
       ELSE IF Falsy(bt)
       THEN opc' = "rot" /\ cfg' = 1 /\ oret' = oret
       ELSE opc' = "ret" /\ cfg' = cfg /\ oret' = << bt, bc >>

\* The end of one rotation attempt (lines 156-160)
AfterRotation(bt, bc) ==
    /\ ntok' = 0
    /\ tok_i' = 0
    /\ IF ~Falsy(bt) \/ cfg = Len(Angles)
       THEN opc' = "ret" /\ cfg' = cfg /\ oret' = << bt, bc >>
       ELSE opc' = "rot" /\ cfg' = cfg + 1 /\ oret' = oret

\* line 123 raising: the outer handler returns (None, 0.0), lines 161-163
RecognizeRaises ==
    /\ opc = "cfg"
    /\ UNCHANGED << confVars, routeVars, textVars, carVars, apptVars >>
    /\ opc' = "ret"
    /\ oret' = << None, 0 >>
    /\ threw' = threw \cup { cfg }
    /\ tried' = tried \cup { cfg }
    /\ recognized' = TRUE
    /\ UNCHANGED << region, proc, cfg, ntok, tok_i, o_best_text, o_best_conf >>
    /\ UNCHANGED << validated, seenFirst, seenMax, tieSeen, dSeenFirst, dSeenMax,
                    inspected, candFound, tileFound, ranTiles, ranWhole, scanned >>
    /\ UNCHANGED dvars

\* lines 123-125: image_to_data with configs[cfg] returns n tokens
Recognize ==
    /\ opc = "cfg"
    /\ UNCHANGED << confVars, routeVars, textVars, carVars, apptVars >>
    /\ tried' = tried \cup { cfg }
    /\ recognized' = TRUE
    /\ \E n \in 0 .. MaxTokens :
           IF n = 0
           THEN AfterTokens(o_best_text, o_best_conf)
           ELSE /\ opc' = "tok"
                /\ ntok' = n
                /\ tok_i' = 0
                /\ UNCHANGED << cfg, oret >>
    /\ UNCHANGED << region, proc, o_best_text, o_best_conf >>
    /\ UNCHANGED << validated, seenFirst, seenMax, threw, tieSeen, dSeenFirst,
                    dSeenMax, inspected, candFound, tileFound, ranTiles, ranWhole, scanned >>
    /\ UNCHANGED dvars

\* the tokens the recognizer can report, each with what the loop body
\* computes of it
RecognizerTokens == { Measured(t, c) : t \in RawTexts, c \in RawConfs }

\* The history of the candidates seen, kept beside the code's own best.
SeenUpdate(cand, conf, cleaned) ==
    /\ validated' = IF cand THEN validated \cup { cleaned } ELSE validated
    /\ IF cand /\ conf > seenMax
       THEN seenFirst' = cleaned /\ seenMax' = conf
       ELSE UNCHANGED << seenFirst, seenMax >>
    /\ tieSeen' = (tieSeen \/ (cand /\ conf = seenMax /\ cleaned # seenFirst))

SeenStep(t, conf, cleaned) == SeenUpdate(IsCandidate(t, conf, cleaned), conf, cleaned)

\* the loop body's effect nb on the best, and the move to the next token
TokenEffect(nb) ==
    /\ o_best_text' = nb[1]
    /\ o_best_conf' = nb[2]
    /\ IF tok_i + 1 = ntok
       THEN AfterTokens(nb[1], nb[2])
       ELSE /\ tok_i' = tok_i + 1
            /\ UNCHANGED << opc, cfg, ntok, oret >>

\* lines 126-135: the recognizer's next token (t, c) goes through the loop body
Token ==
    /\ opc = "tok"
    /\ UNCHANGED << confVars, routeVars, textVars, carVars, apptVars >>
    /\ tok_i < ntok
    /\ \E tk \in RecognizerTokens :
           /\ TokenEffect(TokenUpdate(tk[1], tk[2], tk[3], o_best_text, o_best_conf))
           /\ SeenStep(tk[1], tk[2], tk[3])
    /\ UNCHANGED << region, proc >>
    /\ UNCHANGED << threw, tried, dSeenFirst, dSeenMax, inspected, recognized,
                    candFound, tileFound, ranTiles, ranWhole, scanned >>
    /\ UNCHANGED dvars

\* lines 140-144 raising for one angle: caught at line 158, next angle
RotateRaises ==
    /\ opc = "rot"
    /\ UNCHANGED << confVars, routeVars, textVars, carVars, apptVars >>
    /\ AfterRotation(o_best_text, o_best_conf)
    /\ UNCHANGED << region, proc, o_best_text, o_best_conf >>
    /\ UNCHANGED hvars
    /\ UNCHANGED dvars

\* lines 141-145: the rotated image read with configs[0] returns n tokens
Rotate ==
    /\ opc = "rot"
    /\ UNCHANGED << confVars, routeVars, textVars, carVars, apptVars >>
    /\ \E n \in 0 .. MaxTokens :
           IF n = 0
           THEN AfterRotation(o_best_text, o_best_conf)
           ELSE /\ opc' = "rtok"
                /\ ntok' = n
                /\ tok_i' = 0
                /\ UNCHANGED << cfg, oret >>
    /\ UNCHANGED << region, proc, o_best_text, o_best_conf >>
    /\ UNCHANGED hvars
    /\ UNCHANGED dvars

\* the rotation loop body's effect nb on the best: a hit ends the search
RotTokenEffect(nb) ==
    /\ o_best_text' = nb[1]
    /\ o_best_conf' = nb[2]
    /\ IF nb[2] # o_best_conf \/ tok_i + 1 = ntok
       THEN AfterRotation(nb[1], nb[2])
       ELSE /\ tok_i' = tok_i + 1
            /\ UNCHANGED << opc, cfg, ntok, oret >>

\* lines 146-157: a token of a rotation attempt; the first hit ends the search
RotToken ==
    /\ opc = "rtok"
    /\ UNCHANGED << confVars, routeVars, textVars, carVars, apptVars >>
    /\ tok_i < ntok
    /\ \E tk \in RecognizerTokens :
           /\ RotTokenEffect(TokenUpdate(tk[1], tk[2], tk[3], o_best_text, o_best_conf))
           /\ SeenStep(tk[1], tk[2], tk[3])
    /\ UNCHANGED << region, proc >>
    /\ UNCHANGED << threw, tried, dSeenFirst, dSeenMax, inspected, recognized,
                    candFound, tileFound, ranTiles, ranWhole, scanned >>
    /\ UNCHANGED dvars

\* ------------------------------------------------------------------------
\* detect_plate  (src/plate_detector.py:165-225)
\* ------------------------------------------------------------------------
\* Variant: the guard is missing.
NotReadyIgnored == FALSE

\* line 166: not self.initialized
NotReady == ~initialized

MaxWidth == 1200
Margin == 8
MinTileW == 200
MinTileH == 60

\* lines 169-172: images wider than 1200 are scaled down to width 1200
Resized(img) ==
    IF img.w > MaxWidth
    THEN Array(MaxWidth, (img.h * MaxWidth) \div img.w)
    ELSE img

Area(r) == r[3] * r[4]

\* lines 183-190: the filter on one bounding rectangle (x, y, wc, hc);
\* ar = wc/hc in [1.2, 8.0], area/img_area in (0.0005, 0.6), wc >= 40, hc >= 15
PlateLike(r, img) ==
    /\ r[4] # 0
    /\ 12 * r[4] <= 10 * r[3]
    /\ r[3] <= 8 * r[4]
    /\ 5 * (img.w * img.h) < 10000 * Area(r)
    /\ 10 * Area(r) < 6 * (img.w * img.h)
    /\ r[3] >= 40
    /\ r[4] >= 15

RECURSIVE InsertByArea(_, _)
InsertByArea(r, sorted) ==
    IF sorted = << >> THEN << r >>
    ELSE IF Area(Head(sorted)) <= Area(r) THEN << r >> \o sorted
    ELSE << Head(sorted) >> \o InsertByArea(r, Tail(sorted))

RECURSIVE SortedByArea(_)
\* line 191: sorted(candidates, key=area, reverse=True), a stable sort
SortedByArea(rs) ==
    IF rs = << >> THEN << >>
    ELSE InsertByArea(Head(rs), SortedByArea(Tail(rs)))

\* lines 181-191: the candidates of the contours' bounding rectangles
Candidates(rects, img) ==
    LET Keep(r) == PlateLike(r, img)
    IN  SortedByArea(Filter(Keep, rects))

Min(a, b) == IF a < b THEN a ELSE b
Max(a, b) == IF a > b THEN a ELSE b

Crop(x1, y1, x2, y2) == [ k |-> "crop", x1 |-> x1, y1 |-> y1, x2 |-> x2, y2 |-> y2 ]

\* Variant: the expanded rectangle is not clamped to the image.
CandRegionUnclamped(r, img) ==
    Crop(r[1] - Margin, r[2] - Margin, r[1] + r[3] + Margin, r[2] + r[4] + Margin)

\* lines 195-198: the candidate expanded by 8 pixels and clamped to the image
CandRegion(r, img) ==
    Crop(Max(0, r[1] - Margin), Max(0, r[2] - Margin),
         Min(img.w, r[1] + r[3] + Margin), Min(img.h, r[2] + r[4] + Margin))

\* lines 205-206
TileW(img) == Max(MinTileW, img.w \div 3)
TileH(img) == Max(MinTileH, img.h \div 6)

\* lines 209-211: the tile at (yy, xx)
TileRegion(pos, img) ==
    Crop(pos[2], pos[1],
         Min(img.w, pos[2] + TileW(img)), Min(img.h, pos[1] + TileH(img)))

\* line 222: the full image
WholeRegion(img) == Crop(0, 0, img.w, img.h)

\* lines 200, 213, 223: txt and conf > best_conf
RegionHit(txt, conf, bc) == ~Falsy(txt) /\ conf > bc

\* the update of << best_text, best_conf >> by one ocr_region result
BestStep(txt, conf, bt, bc) ==
    IF RegionHit(txt, conf, bc) THEN << txt, conf >> ELSE << bt, bc >>

ResetOcrHistory ==
    /\ seenFirst' = None
    /\ seenMax' = 0
    /\ threw' = { }
    /\ tried' = { }
    /\ tieSeen' = FALSE

ResetHistory ==
    /\ validated' = { }
    /\ dSeenFirst' = None
    /\ dSeenMax' = 0
    /\ recognized' = FALSE
    /\ candFound' = FALSE
    /\ tileFound' = FALSE
    /\ ranTiles' = FALSE
    /\ ranWhole' = FALSE
    /\ scanned' = { }

\* detect_plate returns or raises: r is << text, conf >> or Raised
DetectEnds(r) ==
    /\ result' = r
    /\ call' = "none"
    /\ last' = "detect_plate"
    /\ dpc' = "idle"
    /\ cands' = << >>
    /\ tpos' = << 0, 0 >>

\* Variant: the tiles are scanned whatever the candidates gave.
AfterCandsAlwaysTiles(bt, bc, img) ==
    /\ dpc' = "tiles"
    /\ cands' = << >>
    /\ tpos' = << 0, 0 >>
    /\ call' = "detect_plate"
    /\ result' = Pending
    /\ last' = "none"

\* line 202 and lines 204-208, 220-221 when the image has no tile:
\* what follows the candidate loop when it ends with best (bt, bc)
AfterCands(bt, bc, img) ==
    IF ~Falsy(bt)
    THEN DetectEnds(<< bt, bc >>)
    ELSE /\ dpc' = (IF img.h > 0 /\ img.w > 0 THEN "tiles" ELSE "whole")
         /\ cands' = << >>
         /\ tpos' = << 0, 0 >>
         /\ call' = "detect_plate"
         /\ result' = Pending
         /\ last' = "none"

\* lines 221, 225: what follows the tiled scan when it ends with best (bt, bc)
AfterTiles(bt, bc) ==
    IF ~Falsy(bt)
    THEN DetectEnds(<< bt, bc >>)
    ELSE /\ dpc' = "whole"
         /\ tpos' = << 0, 0 >>
         /\ UNCHANGED << result, call, last, cands >>

\* lines 165-168: detect_plate on a detector that is not initialized
DetectNotInitialized ==
    /\ call = "none"
    /\ UNCHANGED << confVars, routeVars, textVars, carVars, apptVars >>
    /\ NotReady
    /\ \E img \in Images \cup { NoImage } : image' = img
    /\ ResetHistory
    /\ ResetOcrHistory
    /\ inspected' = FALSE
    /\ DetectEnds(<< None, 0 >>)
    /\ best_text' = None
    /\ best_conf' = 0
    /\ UNCHANGED initialized
    /\ UNCHANGED ovars

\* lines 169-180 raising: image.shape of None, or cv2 rejecting the image
DetectRaises ==
    /\ call = "none"
    /\ UNCHANGED << confVars, routeVars, textVars, carVars, apptVars >>
    /\ ~NotReady
    /\ \E img \in Images \cup { NoImage } : image' = img
    /\ ResetHistory
    /\ ResetOcrHistory
    /\ inspected' = TRUE
    /\ DetectEnds(Raised)
    /\ best_text' = None
    /\ best_conf' = 0
    /\ UNCHANGED initialized
    /\ UNCHANGED ovars

\* lines 192-194, 202: the candidate loop starts on the candidates cs of im
EnterCands(im, cs) ==
    /\ image' = im
    /\ best_text' = None
    /\ best_conf' = 0
    /\ IF cs # << >>
       THEN /\ dpc' = "cands"
            /\ cands' = cs
            /\ tpos' = << 0, 0 >>
            /\ call' = "detect_plate"
            /\ result' = Pending
            /\ last' = "none"
       ELSE AfterCands(None, 0, im)

Located(im, rects) == EnterCands(im, Candidates(rects, im))

\* lines 165-193: detect_plate up to the candidate loop
DetectCall ==
    /\ call = "none"
    /\ UNCHANGED << confVars, routeVars, textVars, carVars, apptVars >>
    /\ ~NotReady
    /\ \E img \in Images, rects \in SeqsUpTo(RawRects, MaxCands) :
           Located(Resized(img), rects)
    /\ ResetHistory
    /\ ResetOcrHistory
    /\ inspected' = TRUE
    /\ UNCHANGED initialized
    /\ UNCHANGED ovars

\* The history of the region results seen, kept beside the code's own best.
RegionSeen(txt, conf) ==
    IF ~Falsy(txt) /\ conf > dSeenMax
    THEN dSeenFirst' = txt /\ dSeenMax' = conf
    ELSE UNCHANGED << dSeenFirst, dSeenMax >>

\* lines 194-199: ocr_region is called on the next candidate's region
CandCall ==
    /\ dpc = "cands"
    /\ UNCHANGED << confVars, routeVars, textVars, carVars, apptVars >>
    /\ opc = "idle"
    /\ cands # << >>
    /\ OcrEnter(CandRegion(Head(cands), image))
    /\ UNCHANGED dvars
    /\ UNCHANGED << validated, dSeenFirst, dSeenMax, inspected, recognized,
                    candFound, tileFound, ranTiles, ranWhole, scanned >>

CandEffect(nb) ==
    /\ best_text' = nb[1]
    /\ best_conf' = nb[2]
    /\ IF Len(cands) > 1
       THEN /\ cands' = Tail(cands)
            /\ UNCHANGED << call, last, result, dpc, tpos >>
       ELSE AfterCands(nb[1], nb[2], image)

\* lines 199-202: its result updates the best; after the last candidate the
\* scan of the tiles follows only if no candidate gave a plate
CandReturn ==
    /\ dpc = "cands"
    /\ UNCHANGED << confVars, routeVars, textVars, carVars, apptVars >>
    /\ opc = "ret"
    /\ CandEffect(BestStep(oret[1], oret[2], best_text, best_conf))
    /\ RegionSeen(oret[1], oret[2])
    /\ candFound' = (candFound \/ ~Falsy(oret[1]))
    /\ OcrIdle
    /\ ResetOcrHistory
    /\ UNCHANGED << initialized, image >>
    /\ UNCHANGED << validated, inspected, recognized, tileFound, ranTiles, ranWhole, scanned >>

\* lines 207-212: ocr_region is called on the tile at tpos
TileCall ==
    /\ dpc = "tiles"
    /\ UNCHANGED << confVars, routeVars, textVars, carVars, apptVars >>
    /\ opc = "idle"
    /\ OcrEnter(TileRegion(tpos, image))
    /\ ranTiles' = TRUE
    /\ scanned' = scanned \cup { TileRegion(tpos, image) }
    /\ UNCHANGED dvars
    /\ UNCHANGED << validated, dSeenFirst, dSeenMax, inspected, recognized,
                    candFound, tileFound, ranWhole >>

\* the scan has no tile left
Done == << -1, -1 >>

\* Variant: the scan moves on by two tile sizes.
TileNextSkipping(pos, img, hit, bc) ==
    IF hit /\ bc >= HighConf THEN Done
    ELSE IF pos[2] + TileW(img) * 2 < img.w
    THEN << pos[1], pos[2] + TileW(img) * 2 >>
    ELSE IF bc >= HighConf THEN Done
    ELSE IF pos[1] + TileH(img) * 2 < img.h
    THEN << pos[1] + TileH(img) * 2, 0 >>
    ELSE Done

\* lines 207-219: the tile after the one at pos, or Done; the scan stops at
\* the first tile that raises the best to 0.9 or more
TileNext(pos, img, hit, bc) ==
    IF hit /\ bc >= HighConf THEN Done
    ELSE IF pos[2] + TileW(img) \div 2 < img.w
    THEN << pos[1], pos[2] + TileW(img) \div 2 >>
    ELSE IF bc >= HighConf THEN Done
    ELSE IF pos[1] + TileH(img) \div 2 < img.h
    THEN << pos[1] + TileH(img) \div 2, 0 >>
    ELSE Done

TileMove(nb, nx) ==
    /\ best_text' = nb[1]
    /\ best_conf' = nb[2]
    /\ IF nx # Done
       THEN /\ tpos' = nx
            /\ UNCHANGED << call, last, result, dpc, cands >>
       ELSE AfterTiles(nb[1], nb[2])

TileEffect(nb, hit) == TileMove(nb, TileNext(tpos, image, hit, nb[2]))

\* lines 212-221: a tile's result updates the best and the scan moves on
TileReturn ==
    /\ dpc = "tiles"
    /\ UNCHANGED << confVars, routeVars, textVars, carVars, apptVars >>
    /\ opc = "ret"
    /\ TileEffect(BestStep(oret[1], oret[2], best_text, best_conf),
                  RegionHit(oret[1], oret[2], best_conf))
    /\ RegionSeen(oret[1], oret[2])
    /\ tileFound' = (tileFound \/ ~Falsy(oret[1]))
    /\ OcrIdle
    /\ ResetOcrHistory
    /\ scanned' = (IF dpc' = "tiles" THEN scanned ELSE { })
    /\ UNCHANGED << initialized, image >>
    /\ UNCHANGED << validated, inspected, recognized, candFound, ranTiles, ranWhole >>

\* lines 221-222: the last attempt, ocr_region on the full image
WholeCall ==
    /\ dpc = "whole"
    /\ UNCHANGED << confVars, routeVars, textVars, carVars, apptVars >>
    /\ opc = "idle"
    /\ OcrEnter(WholeRegion(image))
    /\ ranWhole' = TRUE
    /\ UNCHANGED dvars
    /\ UNCHANGED << validated, dSeenFirst, dSeenMax, inspected, recognized,
                    candFound, tileFound, ranTiles, scanned >>

WholeEffect(nb) ==
    /\ best_text' = nb[1]
    /\ best_conf' = nb[2]
    /\ DetectEnds(nb)

\* lines 222-225
WholeReturn ==
    /\ dpc = "whole"
    /\ UNCHANGED << confVars, routeVars, textVars, carVars, apptVars >>
    /\ opc = "ret"
    /\ WholeEffect(BestStep(oret[1], oret[2], best_text, best_conf))
    /\ RegionSeen(oret[1], oret[2])
    /\ OcrIdle
    /\ ResetOcrHistory
    /\ UNCHANGED << initialized, image >>
    /\ UNCHANGED << validated, inspected, recognized, candFound, tileFound,
                    ranTiles, ranWhole, scanned >>

\* ocr_region called on its own (as the tests do), initialized or not
DirectCall ==
    /\ call = "none"
    /\ UNCHANGED << confVars, routeVars, textVars, carVars, apptVars >>
    /\ call' = "ocr_region"
    /\ last' = "none"
    /\ result' = Pending
    /\ OcrEnter([ k |-> "direct" ])
    /\ ResetHistory
    /\ inspected' = FALSE
    /\ best_text' = None
    /\ best_conf' = 0
    /\ image' = NoImage
    /\ UNCHANGED << initialized, dpc, cands, tpos >>

DirectReturn ==
    /\ call = "ocr_region"
    /\ UNCHANGED << confVars, routeVars, textVars, carVars, apptVars >>
    /\ opc = "ret"
    /\ call' = "none"
    /\ last' = "ocr_region"
    /\ result' = oret
    /\ OcrIdle
    /\ UNCHANGED << initialized, dpc, image, cands, tpos, best_text, best_conf >>
    /\ UNCHANGED hvars

DetectorInit ==
    /\ initialized \in BOOLEAN
    /\ call = "none"
    /\ last = "none"
    /\ result = Pending
    /\ dpc = "idle"
    /\ image = NoImage
    /\ cands = << >>
    /\ tpos = << 0, 0 >>
    /\ best_text = None
    /\ best_conf = 0
    /\ opc = "idle"
    /\ region = [ k |-> "none" ]
    /\ proc = "none"
    /\ cfg = 0
    /\ ntok = 0
    /\ tok_i = 0
    /\ o_best_text = None
    /\ o_best_conf = 0
    /\ oret = Pending
    /\ validated = { }
    /\ seenFirst = None
    /\ seenMax = 0
    /\ threw = { }
    /\ tried = { }
    /\ tieSeen = FALSE
    /\ dSeenFirst = None
    /\ dSeenMax = 0
    /\ inspected = FALSE
    /\ recognized = FALSE
    /\ candFound = FALSE
    /\ tileFound = FALSE
    /\ ranTiles = FALSE
    /\ ranWhole = FALSE
    /\ scanned = { }

\* ------------------------------------------------------------------------
\* _safe_conf called on its own  (src/plate_detector.py:61-73)
\* ------------------------------------------------------------------------
\* characters of the raw confidences tried
ConfAlphabet == { " ", "-", ".", "0", "1", "5", "9", "n", "a", "i", "f" }
\* the raw confidences tried: None and every text of at most MaxConfLen
\* characters (the empty text, "-1", "nan", "inf", "-.5", "1.5", "150", ...)
ConfInputs == { None } \cup SeqsUpTo(ConfAlphabet, MaxConfLen)

ConfIdle ==
    /\ conf_pc = "idle"
    /\ conf_val = None
    /\ conf_ret = 0

ConfCalled ==
    /\ conf_pc = "called"
    /\ conf_val \in ConfInputs
    /\ conf_ret = 0

SafeConfReturn ==
    /\ conf_pc = "called"
    /\ conf_pc' = "returned"
    /\ conf_ret' = safe_conf(conf_val)
    /\ UNCHANGED conf_val
    /\ UNCHANGED << detectorVars, routeVars, textVars, carVars, apptVars >>

\* ------------------------------------------------------------------------
\* clean_and_validate_plate_text  (src/routes/detection_routes.py:51-164)
\* ------------------------------------------------------------------------
AlphaNum(c) == c \in UpperLetters \/ c \in AsciiDigits

\* line 62: re.sub(r'[^A-Z0-9]', '', text.upper())
UpperAlphaNum(text) == Filter(AlphaNum, FlatMap(Upper, text))

\* line 64: texts shorter than this are rejected
MinCleanLen == 3

\* lines 76-93: the letter chosen for a digit in first place, by digit 0..9
FirstCharSeq == << "O", "I", "Z", "E", "A", "S", "G", "T", "B", "Q" >>
first_char_corrections(c) ==
    IF c \in AsciiDigits THEN FirstCharSeq[IndexOf(DigitSeq, c)] ELSE c

\* lines 100-122: the digit chosen for a letter in any other place, by letter
\* A..Z (the dict literal names 'Q' twice; the later '9' is the one kept)
OtherCharSeq ==
    << "4", "8", "0", "0", "3", "7", "6", "1", "1", "1", "1", "1", "1",
       "1", "0", "9", "9", "2", "5", "7", "0", "1", "7", "7", "7", "2" >>
\* Variant: a later character is never changed.
OtherCharsKept(c) == c

\* lines 124-133
other_chars_corrections(c) ==
    IF c \in AsciiDigits THEN c
    ELSE IF c \in UpperLetters THEN OtherCharSeq[IndexOf(UpperSeq, c)]
    ELSE c

RECURSIVE CorrectedDigitsDropped(_)
\* Variant of the loop: a character that is already a digit is not appended.
CorrectedDigitsDropped(rem) ==
    IF rem = << >> THEN << >>
    ELSE (IF Head(rem) \in AsciiDigits THEN << >>
          ELSE << other_chars_corrections(Head(rem)) >>)
         \o CorrectedDigitsDropped(Tail(rem))

RECURSIVE CorrectedRemaining(_)
\* lines 124-133: corrected_remaining, one character appended per character
\* of remaining_chars
CorrectedRemaining(rem) ==
    IF rem = << >> THEN << >>
    ELSE << other_chars_corrections(Head(rem)) >> \o CorrectedRemaining(Tail(rem))

\* lines 90-136: final_text of a cleaned text of at least one character
FinalText(ct) ==
    << first_char_corrections(Head(ct)) >> \o CorrectedRemaining(Tail(ct))

\* lines 140-146: the five patterns, by re.match
Digits(f, lo, hi) == \A k \in lo .. hi : f[k] \in AsciiDigits
Letters(f, lo, hi) == \A k \in lo .. hi : f[k] \in UpperLetters
\* ^[A-Z]\d{5,7}$
RoutePattern1(f) == Len(f) \in 6 .. 8 /\ Letters(f, 1, 1) /\ Digits(f, 2, Len(f))
\* ^\d{5,8}$
RoutePattern2(f) == Len(f) \in 5 .. 8 /\ Digits(f, 1, Len(f))
\* ^[A-Z]{2}\d{4,6}$
RoutePattern3(f) == Len(f) \in 6 .. 8 /\ Letters(f, 1, 2) /\ Digits(f, 3, Len(f))
\* ^[A-Z]\d{3,6}[A-Z]?$
RoutePattern4(f) ==
    \/ Len(f) \in 4 .. 7 /\ Letters(f, 1, 1) /\ Digits(f, 2, Len(f))
    \/ /\ Len(f) \in 5 .. 8
       /\ Letters(f, 1, 1)
       /\ Digits(f, 2, Len(f) - 1)
       /\ Letters(f, Len(f), Len(f))
\* ^\d{4,7}[A-Z]?$
RoutePattern5(f) ==
    \/ Len(f) \in 4 .. 7 /\ Digits(f, 1, Len(f))
    \/ Len(f) \in 5 .. 8 /\ Digits(f, 1, Len(f) - 1) /\ Letters(f, Len(f), Len(f))

MatchesRoutePattern(f) ==
    \/ RoutePattern1(f)
    \/ RoutePattern2(f)
    \/ RoutePattern3(f)
    \/ RoutePattern4(f)
    \/ RoutePattern5(f)

\* lines 150, 155: 4 <= len(final_text) <= 8
MinFinalLen == 4
MaxFinalLen == 8
\* line 159: digits >= 3
MinFallbackDigits == 3
DigitCount(f) == Cardinality({ k \in DOMAIN f : f[k] \in AsciiDigits })

\* Variant: the two length gates are missing.
AcceptedAnyLength(f) == MatchesRoutePattern(f) \/ DigitCount(f) >= MinFallbackDigits

\* lines 148-164: a pattern match or the fallback, both within the length gate
Accepted(f) ==
    /\ Len(f) >= MinFinalLen
    /\ Len(f) <= MaxFinalLen
    /\ (MatchesRoutePattern(f) \/ DigitCount(f) >= MinFallbackDigits)

ValidatedFinal(f) == IF Accepted(f) THEN f ELSE None

\* lines 62-164, from the cleaned text on
ValidatedClean(ct) ==
    IF Len(ct) < MinCleanLen THEN None ELSE ValidatedFinal(FinalText(ct))

clean_and_validate_plate_text(text) ==
    IF Falsy(text) THEN None ELSE ValidatedClean(UpperAlphaNum(text))

\* ------------------------------------------------------------------------
\* /detect  (src/routes/detection_routes.py:169-333)
\* ------------------------------------------------------------------------
\* line 198: confidence_thresholds = [0.25, 0.15, 0.1, 0.05]
confidence_thresholds ==
    << Scale \div 4, (15 * Scale) \div 100, Scale \div 10, Scale \div 20 >>

\* lines 292, 295: the score at which the search stops early, 0.6
GoodScore == (6 * Scale) \div 10

\* line 214: padding = 5
Padding == 5

\* Variant: the two confidences are added without weights.
ScoreSum(conf, text_conf) == conf + text_conf

\* line 277: score = (conf * 0.6) + (text_conf * 0.4)
Score(conf, text_conf) == (conf * 6 + text_conf * 4) \div 10

\* a box of results[0].boxes: float(r.conf) and r.xyxy[0]
YoloBox(conf, x1, y1, x2, y2) ==
    [ conf |-> conf, x1 |-> x1, y1 |-> y1, x2 |-> x2, y2 |-> y2 ]
\* one (bbox, text, text_conf) result of ocr_reader.readtext
Read(text, text_conf) == [ text |-> text, conf |-> text_conf ]

\* images cv2.imdecode returns
RouteImages == { Array(100, 50) }
\* boxes the learned detector reports; the last lies right of the image
YoloBoxes ==
    { YoloBox((3 * Scale) \div 10, 10, 10, 60, 30),
      YoloBox((9 * Scale) \div 10, 10, 10, 60, 30),
      YoloBox((8 * Scale) \div 100, 10, 10, 60, 30),
      YoloBox((9 * Scale) \div 10, 120, 10, 150, 30) }
\* results the text recognizer reports
Reads ==
    { Read(<< "B", "1", "2", "3", "4" >>, (9 * Scale) \div 10),
      Read(<< "B", "1", "2", "3", "4" >>, (2 * Scale) \div 10),
      Read(<< "7", "o", "q", "1" >>, (9 * Scale) \div 10),
      Read(<< "A", "B" >>, (9 * Scale) \div 10) }

\* most boxes one predict call returns, most results in ocr_attempts
MaxBoxes == 2
MaxReads == 2

\* yolo_model.predict(img, conf=t): the boxes at or above the threshold
Predictions(t) ==
    { bs \in SeqsUpTo(YoloBoxes, MaxBoxes) : \A k \in DOMAIN bs : bs[k].conf >= t }

\* lines 242-266: ocr_attempts after the two attempts (the results of the
\* first when it gave any, else those of the second; an attempt that raises
\* adds nothing)
OcrAttempts == SeqsUpTo(Reads, MaxReads)

\* lines 216-225: plate_crop.size == 0
EmptyCrop(im, b) ==
    \/ Min(im.w, b.x2 + Padding) <= Max(0, b.x1 - Padding)
    \/ Min(im.h, b.y2 + Padding) <= Max(0, b.y1 - Padding)

\* best_plate, best_conf and the two entries of best_details the response reads
Best(plate, conf, yolo_conf, ocr_conf) ==
    [ plate |-> plate, conf |-> conf, yolo_conf |-> yolo_conf, ocr_conf |-> ocr_conf ]
\* lines 187-189
NoBest == Best(None, 0, 0, 0)
Current == Best(best_plate, score_best, best_details.yolo_conf, best_details.ocr_conf)

\* line 281: if score > best_conf
Improves(plate, score, b) == plate # None /\ score > b.conf

RECURSIVE ProcessReads(_, _, _)
\* lines 270-293 for one result, then the rest of ocr_attempts
AfterRead(rest, conf, b, plate, score, text_conf) ==
    IF Improves(plate, score, b)
    THEN IF score >= GoodScore
         THEN Best(plate, score, conf, text_conf)
         ELSE ProcessReads(rest, conf, Best(plate, score, conf, text_conf))
    ELSE ProcessReads(rest, conf, b)

\* lines 269-293: for _, text, text_conf in ocr_attempts
ProcessReads(reads, conf, b) ==
    IF reads = << >> THEN b
    ELSE AfterRead(Tail(reads), conf, b,
                   clean_and_validate_plate_text(Head(reads).text),
                   Score(conf, Head(reads).conf), Head(reads).conf)

Response(status, success, message, b) ==
    [ status |-> status, success |-> success, message |-> message,
      plate_number |-> b.plate, confidence |-> b.conf,
      yolo_confidence |-> b.yolo_conf, ocr_confidence |-> b.ocr_conf ]
NoResponse == [ status |-> 0 ]
NoSession == [ detected_plate |-> None, detection_confidence |-> 0 ]

\* the handler's locals once it has returned
RouteLocalsReset ==
    /\ rpc' = "idle"
    /\ r_img' = NoImage
    /\ ti' = 0
    /\ boxes' = << >>
    /\ idx' = 0
    /\ best_plate' = None
    /\ score_best' = 0
    /\ best_details' = [ yolo_conf |-> 0, ocr_conf |-> 0 ]

\* Variant: the confidence of an earlier detection stays in the session.
RespondStaleConfidence(b) ==
    /\ IF b.plate # None
       THEN /\ session' = [ session EXCEPT !.detected_plate = b.plate ]
            /\ response' = Response(200, TRUE, "", b)
       ELSE /\ response' = Response(200, FALSE, "No license plate detected", NoBest)
            /\ UNCHANGED session
    /\ RouteLocalsReset

\* Variant: a request that detects nothing clears the session.
RespondClearsSession(b) ==
    /\ IF b.plate # None
       THEN /\ session' = [ detected_plate |-> b.plate,
                            detection_confidence |-> b.conf ]
            /\ response' = Response(200, TRUE, "", b)
       ELSE /\ response' = Response(200, FALSE, "No license plate detected", NoBest)
            /\ session' = NoSession
    /\ RouteLocalsReset

\* lines 308-329: the JSON result for the best b
Respond(b) ==
    /\ IF b.plate # None
       THEN /\ session' = [ detected_plate |-> b.plate,
                            detection_confidence |-> b.conf ]
            /\ response' = Response(200, TRUE, "", b)
       ELSE /\ response' = Response(200, FALSE, "No license plate detected", NoBest)
            /\ UNCHANGED session
    /\ RouteLocalsReset

\* the best b is kept in the handler's locals
KeepBest(b) ==
    /\ best_plate' = b.plate
    /\ score_best' = b.conf
    /\ best_details' = [ yolo_conf |-> b.yolo_conf, ocr_conf |-> b.ocr_conf ]
    /\ UNCHANGED << session, response, r_img >>

\* lines 299-300 and the end of the threshold loop
EndThreshold(b) ==
    IF b.plate # None \/ ti = Len(confidence_thresholds)
    THEN Respond(b)
    ELSE /\ KeepBest(b)
         /\ rpc' = "predict"
         /\ ti' = ti + 1
         /\ boxes' = << >>
         /\ idx' = 0

\* the next box, when the box loop goes on
NextBox(b) ==
    IF idx = Len(boxes)
    THEN EndThreshold(b)
    ELSE /\ KeepBest(b)
         /\ idx' = idx + 1
         /\ UNCHANGED << rpc, ti, boxes >>

\* lines 295-296: if best_conf >= 0.6: break
AfterBox(b) == IF b.conf >= GoodScore THEN EndThreshold(b) ELSE NextBox(b)

\* lines 172-183: the request is answered with 400 before any detection
RouteRejects ==
    /\ rpc = "idle"
    /\ \E m \in { "No image provided", "Empty image file", "Invalid image format" } :
          response' = Response(400, FALSE, m, NoBest)
    /\ consulted' = { }
    /\ UNCHANGED << yolo_model, ocr_reader, session, rpc, r_img, ti, boxes, idx,
                    best_plate, score_best, best_details >>
    /\ UNCHANGED << detectorVars, confVars, textVars, carVars, apptVars >>

\* lines 331-333: reading the upload raises
RouteRaises ==
    /\ rpc = "idle"
    /\ response' = Response(500, FALSE, "Error processing image", NoBest)
    /\ consulted' = { }
    /\ UNCHANGED << yolo_model, ocr_reader, session, rpc, r_img, ti, boxes, idx,
                    best_plate, score_best, best_details >>
    /\ UNCHANGED << detectorVars, confVars, textVars, carVars, apptVars >>

\* lines 181-194, 308-329: an image decodes and the detection block is
\* skipped because yolo_model or ocr_reader is None
RouteSkipsDetection ==
    /\ rpc = "idle"
    /\ ~(yolo_model /\ ocr_reader)
    /\ \E im \in RouteImages : Respond(NoBest)
    /\ consulted' = { }
    /\ UNCHANGED << yolo_model, ocr_reader >>
    /\ UNCHANGED << detectorVars, confVars, textVars, carVars, apptVars >>

\* lines 181-198: an image decodes and the threshold loop is entered
RouteStartsDetection ==
    /\ rpc = "idle"
    /\ yolo_model /\ ocr_reader
    /\ \E im \in RouteImages : r_img' = im
    /\ rpc' = "predict"
    /\ ti' = 1
    /\ response' = NoResponse
    /\ consulted' = { }
    /\ UNCHANGED << yolo_model, ocr_reader, session, boxes, idx,
                    best_plate, score_best, best_details >>
    /\ UNCHANGED << detectorVars, confVars, textVars, carVars, apptVars >>

\* lines 200-204, 299-300: predict at the current threshold
Predict ==
    /\ rpc = "predict"
    /\ consulted' = consulted \cup { "yolo" }
    /\ \E bs \in Predictions(confidence_thresholds[ti]) :
          IF bs = << >>
          THEN EndThreshold(Current)
          ELSE /\ rpc' = "box"
               /\ boxes' = bs
               /\ idx' = 1
               /\ UNCHANGED << session, response, r_img, ti,
                               best_plate, score_best, best_details >>
    /\ UNCHANGED << yolo_model, ocr_reader >>
    /\ UNCHANGED << detectorVars, confVars, textVars, carVars, apptVars >>

\* lines 302-303: predict raises; the best so far is answered
PredictRaises ==
    /\ rpc = "predict"
    /\ consulted' = consulted \cup { "yolo" }
    /\ Respond(Current)
    /\ UNCHANGED << yolo_model, ocr_reader >>
    /\ UNCHANGED << detectorVars, confVars, textVars, carVars, apptVars >>

\* lines 207-296: one box, its crop read by the text recognizer
Box ==
    /\ rpc = "box"
    /\ IF EmptyCrop(r_img, boxes[idx])
       THEN /\ NextBox(Current)
            /\ UNCHANGED consulted
       ELSE /\ consulted' = consulted \cup { "ocr" }
            /\ \E reads \in OcrAttempts :
                  AfterBox(ProcessReads(reads, boxes[idx].conf, Current))
    /\ UNCHANGED << yolo_model, ocr_reader >>
    /\ UNCHANGED << detectorVars, confVars, textVars, carVars, apptVars >>

\* lines 302-303: the resize or the preprocessing of a crop raises; the best
\* so far is answered
BoxRaises ==
    /\ rpc = "box"
    /\ ~EmptyCrop(r_img, boxes[idx])
    /\ Respond(Current)
    /\ UNCHANGED consulted
    /\ UNCHANGED << yolo_model, ocr_reader >>
    /\ UNCHANGED << detectorVars, confVars, textVars, carVars, apptVars >>

\* the module before any request
RouteIdle ==
    /\ session = NoSession
    /\ rpc = "idle"
    /\ r_img = NoImage
    /\ ti = 0
    /\ boxes = << >>
    /\ idx = 0
    /\ best_plate = None
    /\ score_best = 0
    /\ best_details = [ yolo_conf |-> 0, ocr_conf |-> 0 ]
    /\ response = NoResponse
    /\ consulted = { }

\* lines 16-33: each of the two models loads or is left None
RouteLoaded ==
    /\ yolo_model \in BOOLEAN
    /\ ocr_reader \in BOOLEAN
    /\ RouteIdle

\* the module not imported
RouteUnloaded ==
    /\ yolo_model = FALSE
    /\ ocr_reader = FALSE
    /\ RouteIdle

\* ------------------------------------------------------------------------
\* The text functions called on their own
\*   clean_text, is_valid_plate      (src/plate_detector.py:75-108)
\*   clean_and_validate_plate_text   (src/routes/detection_routes.py:51-164)
\* ------------------------------------------------------------------------
\* longest text of the mixed alphabet, longest text of the plate alphabet
MaxTextLen == 3
MaxRawLen == 5

\* lower and upper case, a digit, separators, a character that is removed,
\* an Arabic-Indic digit, the sharp s, a newline
MixedAlphabet == { "a", "B", "1", "-", " ", "!", "U+0663", "U+00DF", "\n" }
\* characters OCR reports of a plate
PlateAlphabet == { "0", "B", "1", "2", "3" }
\* one letter and one digit, for the texts around the validator's longest
TwoAlphabet == { "A", "1" }
\* the letters the later-place table names for the digit 0, and Q
ConfusableAlphabet == { "A", "O", "Q", "1" }

TextInputs ==
    { None }
        \cup SeqsUpTo(MixedAlphabet, MaxTextLen)
        \cup SeqsUpTo(PlateAlphabet, MaxRawLen)
        \cup SeqsUpTo(TwoAlphabet, MaxPlateLen + 1)
        \cup SeqsUpTo(ConfusableAlphabet, MaxRawLen)

TextIdle ==
    /\ f_pc = "idle"
    /\ f_text = None
    /\ f_cleaned = None
    /\ f_recleaned = None
    /\ f_valid = FALSE
    /\ f_clean_text = None
    /\ f_final_text = None
    /\ f_plate = None

TextStart ==
    /\ f_pc = "start"
    /\ f_text \in TextInputs
    /\ f_cleaned = None
    /\ f_recleaned = None
    /\ f_valid = FALSE
    /\ f_clean_text = None
    /\ f_final_text = None
    /\ f_plate = None

\* clean_text(text)
CleanText ==
    /\ f_pc = "start"
    /\ f_pc' = "cleaned"
    /\ f_cleaned' = clean_text(f_text)
    /\ UNCHANGED << f_text, f_recleaned, f_valid, f_clean_text, f_final_text, f_plate >>
    /\ UNCHANGED << detectorVars, confVars, routeVars, carVars, apptVars >>

\* clean_text of what clean_text returned
CleanTextAgain ==
    /\ f_pc = "cleaned"
    /\ f_pc' = "recleaned"
    /\ f_recleaned' = clean_text(f_cleaned)
    /\ UNCHANGED << f_text, f_cleaned, f_valid, f_clean_text, f_final_text, f_plate >>
    /\ UNCHANGED << detectorVars, confVars, routeVars, carVars, apptVars >>

\* is_valid_plate(text)
ValidatePlate ==
    /\ f_pc = "start"
    /\ f_pc' = "validated"
    /\ f_valid' = is_valid_plate(f_text)
    /\ UNCHANGED << f_text, f_cleaned, f_recleaned, f_clean_text, f_final_text, f_plate >>
    /\ UNCHANGED << detectorVars, confVars, routeVars, carVars, apptVars >>

\* is_valid_plate(clean_text(text)), as ocr_region calls the two (lines 132-133)
ValidateCleaned ==
    /\ f_pc = "cleaned"
    /\ f_pc' = "cleanvalid"
    /\ f_valid' = is_valid_plate(f_cleaned)
    /\ UNCHANGED << f_text, f_cleaned, f_recleaned, f_clean_text, f_final_text, f_plate >>
    /\ UNCHANGED << detectorVars, confVars, routeVars, carVars, apptVars >>

\* clean_and_validate_plate_text's locals when it ends: clean_text of line 62
\* (None when it returned at line 59) and final_text of line 136 (None when
\* it returned at line 59 or 66)
LocalCleanText(text) == IF Falsy(text) THEN None ELSE UpperAlphaNum(text)
LocalFinalText(ct) ==
    IF ct = None \/ Len(ct) < MinCleanLen THEN None ELSE FinalText(ct)

\* clean_and_validate_plate_text(text)
CleanAndValidate ==
    /\ f_pc = "start"
    /\ f_pc' = "corrected"
    /\ f_clean_text' = LocalCleanText(f_text)
    /\ f_final_text' = LocalFinalText(LocalCleanText(f_text))
    /\ f_plate' = clean_and_validate_plate_text(f_text)
    /\ UNCHANGED << f_text, f_cleaned, f_recleaned, f_valid >>
    /\ UNCHANGED << detectorVars, confVars, routeVars, carVars, apptVars >>

\* ------------------------------------------------------------------------
\* add_car  (src/routes/car_routes.py:17-161)
\* ------------------------------------------------------------------------
\* plates a route has put into session['detected_plate']: two that /detect
\* returns and one only the mechanic's store_plate accepts
SessionPlates ==
    { << "B", "1", "2", "3", "4" >>, << "T", "0", "9", "1" >>, << "A", "B" >> }
\* data.get("car_plate", ""): absent, one with blanks and lower case, and
\* the plate of a car another request may have registered
BodyPlates ==
    { << >>, << " ", "c", "5", "6", "7", "8" >>, << "B", "1", "2", "3", "4" >> }
\* data.get("vin") after strip().upper(), of 17 characters
Vins == { "VIN-1", "VIN-2" }
\* the rest of the body: "ok", or the check that rejects it: a required field
\* missing (line 40), year, VIN length, dates or mileage invalid (lines
\* 46-73), the owner part rejected with 400 or 404 (lines 95-120)
BodyRests == { "ok", "missing", "invalid", "owner400", "owner404" }
Bodies == [ car_plate : BodyPlates, vin : Vins, rest : BodyRests ]

RECURSIVE UpperText(_)
\* str.upper() of a text
UpperText(t) == IF t = << >> THEN << >> ELSE Upper(Head(t)) \o UpperText(Tail(t))

\* Variant: the plate of the body is taken before the plate of the session.
CarPlateBodyFirst(sess, body) ==
    IF ~Falsy(UpperText(Strip(body.car_plate)))
    THEN UpperText(Strip(body.car_plate))
    ELSE sess.detected_plate

\* line 24: session.get('detected_plate') or data.get("car_plate", "").strip().upper()
CarPlate(sess, body) ==
    IF ~Falsy(sess.detected_plate)
    THEN sess.detected_plate
    ELSE UpperText(Strip(body.car_plate))

\* line 43: ^[A-Z0-9]{4,8}$
PlateShape(p) == Len(p) \in 4 .. 8 /\ AllIn(p, 1, Len(p), ReAZ09)

\* lines 39-161: the status add_car answers with for the plate cp, the body,
\* the rows of car, and a database call that raises or not
AddCarStatus(cp, body, rows, raises) ==
    IF Falsy(cp) \/ body.rest = "missing" THEN 400
    ELSE IF ~AtEnd(cp, PlateShape) THEN 400
    ELSE IF body.rest = "invalid" THEN 400
    ELSE IF raises THEN 500
    ELSE IF \E r \in rows : r.plate = cp THEN 409
    ELSE IF \E r \in rows : r.vin = body.vin THEN 409
    ELSE IF body.rest = "owner400" THEN 400
    ELSE IF body.rest = "owner404" THEN 404
    ELSE 201

\* add_car, one request: the answer and, on 201, the insert, the commit
\* (lines 122-140) and the plate taken off the session (lines 143-145)
AddCar ==
    /\ \E body \in Bodies, raises \in BOOLEAN :
          LET cp == CarPlate(session, body)
              status == AddCarStatus(cp, body, car_rows, raises)
          IN  /\ add_resp' = [ status |-> status, car_plate |-> cp ]
              /\ add_body' = body
              /\ add_n' = 1 - add_n
              /\ IF status = 201
                 THEN /\ car_rows' = car_rows \cup { [ plate |-> cp, vin |-> body.vin ] }
                      /\ session' = [ session EXCEPT !.detected_plate = None ]
                 ELSE UNCHANGED << car_rows, session >>
    /\ UNCHANGED << yolo_model, ocr_reader, rpc, r_img, ti, boxes, idx,
                    best_plate, score_best, best_details, response, consulted >>
    /\ UNCHANGED << detectorVars, confVars, textVars, apptVars >>

\* a route stores a plate: /detect on success (detection_routes.py:309-310),
\* the mechanic's store_plate (mechanic_routes.py:969)
StorePlate ==
    /\ \E p \in SessionPlates : session' = [ session EXCEPT !.detected_plate = p ]
    /\ UNCHANGED << yolo_model, ocr_reader, rpc, r_img, ti, boxes, idx,
                    best_plate, score_best, best_details, response, consulted >>
    /\ UNCHANGED << detectorVars, confVars, textVars, carVars, apptVars >>

CarIdle ==
    /\ car_rows = { }
    /\ add_n = 0
    /\ add_body = [ car_plate |-> << >>, vin |-> "VIN-1", rest |-> "ok" ]
    /\ add_resp = [ status |-> 0, car_plate |-> None ]

\* ------------------------------------------------------------------------
\* book_appointment, update_selected_appointment
\*   (src/routes/appointment_routes.py:30-217, 353-462)
\* ------------------------------------------------------------------------
\* requests served at the same time, each on its own connection
MaxClients == 2
\* most rows of appointment
MaxAppointments == 3

Clients == 1 .. MaxClients
\* (Date, Time) pairs asked for
Slots == { << 1, 9 >>, << 1, 10 >> }
NoSlot == << 0, 0 >>
AppointmentIds == 1 .. MaxAppointments

\* lines 107-108: SELECT 1 FROM appointment WHERE Date = %s AND Time = %s
SlotTaken(rows, slot) == \E r \in rows : r.slot = slot

\* lines 403-406: ... WHERE Date = %s AND Time = %s AND Appointment_id != %s
SlotTakenByOther(rows, slot, id) == \E r \in rows : r.slot = slot /\ r.id # id

Answer(c, status) ==
    /\ a_pc' = [ a_pc EXCEPT ![c] = "idle" ]
    /\ a_req' = [ a_req EXCEPT ![c] = [ slot |-> NoSlot, id |-> 0 ] ]
    /\ a_resp' = [ a_resp EXCEPT ![c] = status ]

Proceed(c, kind, slot, id) ==
    /\ a_pc' = [ a_pc EXCEPT ![c] = kind ]
    /\ a_req' = [ a_req EXCEPT ![c] = [ slot |-> slot, id |-> id ] ]
    /\ a_resp' = [ a_resp EXCEPT ![c] = 0 ]

\* lines 92-110: book_appointment up to the slot check; a taken slot is
\* answered 409 after a rollback
BookCheck(c) ==
    /\ a_pc[c] = "idle"
    /\ \E slot \in Slots :
          IF SlotTaken(appointment, slot)
          THEN Answer(c, 409)
          ELSE Proceed(c, "book", slot, 0)
    /\ UNCHANGED << appointment, a_next_id >>
    /\ UNCHANGED << detectorVars, confVars, routeVars, textVars, carVars >>

\* lines 121-206: the car, the INSERT into appointment (lines 169-172), the
\* services and the commit (line 194)
BookCommit(c) ==
    /\ a_pc[c] = "book"
    /\ a_next_id <= MaxAppointments
    /\ appointment' = appointment \cup { [ id |-> a_next_id, slot |-> a_req[c].slot ] }
    /\ a_next_id' = a_next_id + 1
    /\ Answer(c, 201)
    /\ UNCHANGED << detectorVars, confVars, routeVars, textVars, carVars >>

\* lines 115-119, 178-183, 208-217: the VIN is in use, a service id is
\* invalid, or a database call raises: rollback
BookRollback(c) ==
    /\ a_pc[c] = "book"
    /\ \E status \in { 409, 400, 500 } : Answer(c, status)
    /\ UNCHANGED << appointment, a_next_id >>
    /\ UNCHANGED << detectorVars, confVars, routeVars, textVars, carVars >>

\* lines 353-409: update_selected_appointment up to the slot check, for the
\* appointment selected in the session; a missing appointment is answered
\* 404 and a slot another appointment has 409, each after a rollback
UpdateCheck(c) ==
    /\ a_pc[c] = "idle"
    /\ \E id \in AppointmentIds, slot \in Slots :
          IF ~\E r \in appointment : r.id = id
          THEN Answer(c, 404)
          ELSE IF SlotTakenByOther(appointment, slot, id)
          THEN Answer(c, 409)
          ELSE Proceed(c, "update", slot, id)
    /\ UNCHANGED << appointment, a_next_id >>
    /\ UNCHANGED << detectorVars, confVars, routeVars, textVars, carVars >>

\* lines 411-451: UPDATE appointment SET Date, Time ..., the services and the
\* commit (line 430)
UpdateCommit(c) ==
    /\ a_pc[c] = "update"
    /\ appointment' =
          { IF r.id = a_req[c].id THEN [ r EXCEPT !.slot = a_req[c].slot ] ELSE r :
                r \in appointment }
    /\ Answer(c, 200)
    /\ UNCHANGED a_next_id
    /\ UNCHANGED << detectorVars, confVars, routeVars, textVars, carVars >>

\* lines 419-423, 453-462: a service id is invalid or a database call
\* raises: rollback
UpdateRollback(c) ==
    /\ a_pc[c] = "update"
    /\ \E status \in { 400, 500 } : Answer(c, status)
    /\ UNCHANGED << appointment, a_next_id >>
    /\ UNCHANGED << detectorVars, confVars, routeVars, textVars, carVars >>

ApptIdle ==
    /\ appointment = { }
    /\ a_next_id = 1
    /\ a_pc = [ c \in Clients |-> "idle" ]
    /\ a_req = [ c \in Clients |-> [ slot |-> NoSlot, id |-> 0 ] ]
    /\ a_resp = [ c \in Clients |-> 0 ]

\* ------------------------------------------------------------------------
\* Specifications
\* ------------------------------------------------------------------------
Init == DetectorInit /\ ConfIdle /\ RouteUnloaded /\ TextIdle /\ CarIdle /\ ApptIdle

Next ==
    \/ DetectNotInitialized
    \/ DetectRaises
    \/ DetectCall
    \/ CandCall
    \/ CandReturn
    \/ TileCall
    \/ TileReturn
    \/ WholeCall
    \/ WholeReturn
    \/ DirectCall
    \/ DirectReturn
    \/ Recognize
    \/ RecognizeRaises
    \/ Token
    \/ Rotate
    \/ RotateRaises
    \/ RotToken

Spec == Init /\ [][Next]_vars

\* _safe_conf on every raw confidence of ConfInputs
ConfInit == DetectorInit /\ ConfCalled /\ RouteUnloaded /\ TextIdle /\ CarIdle /\ ApptIdle
ConfNext == SafeConfReturn
ConfSpec == ConfInit /\ [][ConfNext]_vars

\* requests to /detect, one after another
RouteInit == DetectorInit /\ ConfIdle /\ RouteLoaded /\ TextIdle /\ CarIdle /\ ApptIdle
RouteNext ==
    \/ RouteRejects
    \/ RouteRaises
    \/ RouteSkipsDetection
    \/ RouteStartsDetection
    \/ Predict
    \/ PredictRaises
    \/ Box
    \/ BoxRaises
RouteSpec == RouteInit /\ [][RouteNext]_vars

\* the text functions on every text of TextInputs
TextInit ==
    DetectorInit /\ ~initialized /\ ConfIdle /\ RouteUnloaded /\ TextStart /\ CarIdle /\ ApptIdle
TextNext ==
    \/ CleanText
    \/ CleanTextAgain
    \/ ValidatePlate
    \/ ValidateCleaned
    \/ CleanAndValidate
TextSpec == TextInit /\ [][TextNext]_vars

\* requests to add_car, between the requests that store a plate
CarInit ==
    DetectorInit /\ ~initialized /\ ConfIdle /\ RouteUnloaded /\ TextIdle /\ CarIdle /\ ApptIdle
CarNext ==
    \/ AddCar
    \/ StorePlate
CarSpec == CarInit /\ [][CarNext]_vars

\* requests to book and to update appointments, served at the same time
ApptInit ==
    DetectorInit /\ ~initialized /\ ConfIdle /\ RouteUnloaded /\ TextIdle /\ CarIdle /\ ApptIdle
ApptNext ==
    \E c \in Clients :
        \/ BookCheck(c)
        \/ BookCommit(c)
        \/ BookRollback(c)
        \/ UpdateCheck(c)
        \/ UpdateCommit(c)
        \/ UpdateRollback(c)
ApptSpec == ApptInit /\ [][ApptNext]_vars

\* ------------------------------------------------------------------------
\* Properties of WorkingPlateDetector
\* ------------------------------------------------------------------------
Returned(r) == r # Pending /\ r # Raised
OcrReturned == opc = "ret"
DetectReturned == call = "none" /\ last = "detect_plate" /\ Returned(result)
DirectReturned == call = "none" /\ last = "ocr_region" /\ Returned(result)

\* C1: every plate text held as a best or returned by ocr_region or
\* detect_plate is the cleaned form of a token that is_valid_plate accepted
\* in this call; no other text is ever returned.
C1_OnlyValidatedText ==
    /\ o_best_text # None => o_best_text \in validated
    /\ best_text # None => best_text \in validated
    /\ OcrReturned /\ oret[1] # None => oret[1] \in validated
    /\ Returned(result) /\ result[1] # None => result[1] \in validated

\* C1 witness: detect_plate returned a plate that a tile gave
C1_Witness ==
    /\ DetectReturned
    /\ result[1] # None
    /\ tileFound
    /\ result[1] \in validated

\* What a return value must look like: (None, 0.0), or a non-empty text with
\* a confidence between the floor and 1.0.
WellFormed(r) ==
    \/ r = << None, 0 >>
    \/ /\ r[1] # None
       /\ Len(r[1]) > 0
       /\ min_confidence <= r[2]
       /\ r[2] <= Scale

\* C2: ocr_region and detect_plate return (None, 0.0) or a non-empty text
\* with min_confidence <= confidence <= 1.0; the text is None exactly when
\* the confidence is 0.0.
C2_ReturnShape ==
    /\ OcrReturned => WellFormed(oret) /\ (oret[1] = None <=> oret[2] = 0)
    /\ Returned(result) => WellFormed(result) /\ (result[1] = None <=> result[2] = 0)

\* C2 witness: ocr_region called on its own returned a plate
C2_Witness ==
    /\ DirectReturned
    /\ result[1] # None
    /\ result[2] >= min_confidence

StrictReplacementStep ==
    /\ ( /\ opc \in { "tok", "rtok" }
         /\ << o_best_text', o_best_conf' >> # << o_best_text, o_best_conf >> )
       => o_best_conf' > o_best_conf
    /\ ( /\ call = "detect_plate"
         /\ opc = "ret"
         /\ << best_text', best_conf' >> # << best_text, best_conf >> )
       => best_conf' > best_conf
    /\ (opc' = "ret" /\ oret'[1] # None)
       => oret' = << seenFirst', seenMax' >>
    /\ ( /\ call = "detect_plate"
         /\ call' = "none"
         /\ Returned(result')
         /\ result'[1] # None )
       => result' = << dSeenFirst', dSeenMax' >>

\* C3: the best changes only to a strictly greater confidence, in the token
\* loops of ocr_region and in the region loops of detect_plate; what is
\* returned is the first candidate at the highest confidence.
C3_StrictReplacement == [][StrictReplacementStep]_vars

\* C3 witness: ocr_region returns the first of two different candidates at
\* the same confidence
C3_Witness ==
    /\ OcrReturned
    /\ tieSeen
    /\ oret = << seenFirst, seenMax >>
    /\ oret[1] # None

LoopEndsClean == opc' \in { "rot", "ret" } /\ threw' = { }

RunningMaxStep ==
    opc \in { "cfg", "tok" } =>
        /\ o_best_conf' >= o_best_conf
        /\ LoopEndsClean => o_best_conf' = seenMax'
        /\ LoopEndsClean => o_best_text' = seenFirst'
        /\ (LoopEndsClean /\ seenMax' = 0) => o_best_text' = None

\* C4: through the configuration loop of ocr_region the best confidence never
\* decreases, and when the loop ends without an exception it is the highest
\* normalized confidence of the valid tokens at or above the floor (0.0
\* with text None when there is none).
C4_RunningMax == [][RunningMaxStep]_vars

\* C4 witness: the four configurations ran without an exception, two
\* different candidates were seen and the highest confidence is returned
C4_Witness ==
    /\ OcrReturned
    /\ threw = { }
    /\ tried = 1 .. NumConfigs
    /\ seenMax > min_confidence
    /\ Cardinality(validated) > 1
    /\ oret[2] = seenMax

\* C5: detect_plate scans the tiles exactly when no candidate region gave a
\* plate, and reads the whole image exactly when neither the candidates nor
\* the tiles gave one; no later stage runs once an earlier one gave a plate.
C5_StageOrder ==
    /\ ranTiles => ~candFound
    /\ ranWhole => ~candFound /\ ~tileFound
    /\ (DetectReturned /\ inspected) =>
          /\ ranTiles <=> ~candFound
          /\ ranWhole <=> (~candFound /\ ~tileFound)

\* C5 witness: a candidate region gave the plate and no tile was scanned
C5_Witness ==
    /\ DetectReturned
    /\ candFound
    /\ ~ranTiles
    /\ ~ranWhole
    /\ result[1] # None

\* C6: when the recognizer throws for one configuration the other
\* configurations are still tried and a valid candidate found by any of
\* them is returned.
C6_ConfigFailureIsLocal ==
    (OcrReturned /\ threw # { }) =>
        /\ tried = 1 .. NumConfigs
        /\ seenMax > 0 => oret = << seenFirst, seenMax >>

\* C7: with the recognizer initialized detect_plate never raises.
C7_NeverRaises == initialized => result # Raised

\* C8: on a detector that is not initialized detect_plate returns
\* (None, 0.0) for every input, None included, without reading the image
\* and without invoking the recognizer.
C8_NotInitialized ==
    ~initialized =>
        /\ call # "detect_plate"
        /\ (call = "none" /\ last = "detect_plate") =>
              /\ result = << None, 0 >>
              /\ ~inspected
              /\ ~recognized

\* C8 witness: detect_plate(None) on such a detector returned (None, 0.0)
C8_Witness ==
    /\ ~initialized
    /\ call = "none"
    /\ last = "detect_plate"
    /\ image = NoImage
    /\ result = << None, 0 >>

\* ------------------------------------------------------------------------
\* Properties of the /detect endpoint
\* ------------------------------------------------------------------------
\* C9: with the learned detector absent (yolo_model is None) and the text
\* recognizer loaded, a decodable image is still put through the text
\* recognizer before /detect answers, so that a plate can be reported.
C9_DegradesGracefully ==
    (~yolo_model /\ ocr_reader /\ response.status = 200) => "ocr" \in consulted

\* ------------------------------------------------------------------------
\* Properties of _safe_conf
\* ------------------------------------------------------------------------
\* a raw confidence that denotes no number: None, the empty text, the
\* sentinel "-1", text float() rejects, and "nan"
NotNumeric(val) ==
    \/ val = None
    \/ Strip(val) \in { << >>, << "-", "1" >> }
    \/ ParseFloat(val).k \in { "ValueError", "nan" }

\* C10: for every raw confidence _safe_conf returns a value in [0.0, 1.0]
\* and does not raise; None, "", "-1" and non-numeric inputs give exactly 0.0.
C10_SafeConfContract ==
    conf_pc = "returned" =>
        /\ conf_ret \in 0 .. Scale
        /\ NotNumeric(conf_val) => conf_ret = 0

\* the text str(p) of an integer percentage p in 0..100
IsPercentage(val) ==
    /\ val # None
    /\ val # << >>
    /\ AllDigits(val)
    /\ (Len(val) = 1 \/ val[1] # "0")
    /\ DigitsValue(val) <= 100

\* a text float() reads as a number of [0.0, 1.0] that is not such a percentage
IsFraction(val) ==
    /\ val # None
    /\ ~IsPercentage(val)
    /\ Strip(val) # << "-", "1" >>
    /\ ParseFloat(val).k = "num"
    /\ ParseFloat(val).n >= 0
    /\ ParseFloat(val).n <= Scale

\* C11: an integer percentage p of 0..100 gives p / 100 (so the result never
\* decreases as p grows), and an input already within [0.0, 1.0] is returned
\* unchanged.
C11_PercentagesDividedBy100 ==
    conf_pc = "returned" =>
        /\ IsPercentage(conf_val) => conf_ret * 100 = DigitsValue(conf_val) * Scale
        /\ IsFraction(conf_val) => conf_ret = ParseFloat(conf_val).n

\* ------------------------------------------------------------------------
\* Properties of the text functions
\* ------------------------------------------------------------------------
\* a text of the letters A-Z and the ASCII digits only
Canonical(s) == s # None /\ \A k \in DOMAIN s : s[k] \in UpperLetters \cup AsciiDigits

\* C12: clean_text is idempotent: what it returns holds only A-Z and ASCII
\* digits, and clean_text of it is the same text.
C12_CleanTextIdempotent ==
    f_pc = "recleaned" =>
        /\ Canonical(f_cleaned)
        /\ f_recleaned = f_cleaned

\* C12 witness: a text that cleaning changed to a non-empty text is cleaned again
C12_Witness ==
    /\ f_pc = "recleaned"
    /\ f_text = << "a", "-", "U+0663" >>
    /\ f_cleaned = << "A", "3" >>
    /\ f_recleaned = f_cleaned

\* C13: with the declared length range 3..12, a canonical text of exactly the
\* minimum length validates and no text one character shorter does; a
\* canonical text of exactly the maximum length validates and no text one
\* character longer does.
C13_LengthBoundaries ==
    (f_pc = "validated" /\ f_text # None) =>
        /\ (Canonical(f_text) /\ Len(f_text) = MinPlateLen) => f_valid
        /\ Len(f_text) = MinPlateLen - 1 => ~f_valid
        /\ (Canonical(f_text) /\ Len(f_text) = MaxPlateLen) => f_valid
        /\ Len(f_text) = MaxPlateLen + 1 => ~f_valid

HasLetter(s) == \E k \in DOMAIN s : IsAlpha(s[k])
HasDigit(s) == \E k \in DOMAIN s : IsDigit(s[k])

\* C14: is_valid_plate returns False for every text without a letter and for
\* every text without a digit.
C14_LettersAndDigits ==
    (f_pc = "validated" /\ f_text # None) =>
        /\ ~HasLetter(f_text) => ~f_valid
        /\ ~HasDigit(f_text) => ~f_valid

\* C15: the correction keeps the length of the cleaned text and works place
\* by place: a leading letter and every later digit stay where they are, the
\* first place ends as a letter and every later place as a digit.
C15_CorrectionKeepsPlaces ==
    (f_pc = "corrected" /\ f_final_text # None) =>
        /\ Len(f_final_text) = Len(f_clean_text)
        /\ \A k \in DOMAIN f_clean_text :
              /\ (k = 1 /\ f_clean_text[k] \in UpperLetters)
                    => f_final_text[k] = f_clean_text[k]
              /\ (k > 1 /\ f_clean_text[k] \in AsciiDigits)
                    => f_final_text[k] = f_clean_text[k]
              /\ k = 1 => f_final_text[k] \in UpperLetters
              /\ k > 1 => f_final_text[k] \in AsciiDigits

\* C15 witness: a text with a leading digit, a later letter and later digits
\* is corrected
C15_Witness ==
    /\ f_pc = "corrected"
    /\ f_clean_text = << "1", "B", "2", "0" >>
    /\ f_final_text = << "I", "8", "2", "0" >>

\* C16 as stated: "0B123" is corrected to "OB123", only the leading character
\* changing.
C16_LeadingOnly ==
    (f_pc = "corrected" /\ f_text = << "0", "B", "1", "2", "3" >>) =>
        f_final_text = << "O", "B", "1", "2", "3" >>

\* C16: "0B123" is corrected to "O8123": the leading 0 becomes the letter O,
\* the later letter B becomes the digit 8, the digits 1, 2, 3 stay, and
\* "O8123" is what clean_and_validate_plate_text returns.
C16_LeadingAndLater ==
    (f_pc = "corrected" /\ f_text = << "0", "B", "1", "2", "3" >>) =>
        /\ f_final_text = << "O", "8", "1", "2", "3" >>
        /\ f_plate = f_final_text

\* C16 witness: "0B123" went through clean_and_validate_plate_text
C16_Witness ==
    /\ f_pc = "corrected"
    /\ f_text = << "0", "B", "1", "2", "3" >>
    /\ f_plate = << "O", "8", "1", "2", "3" >>

\* ------------------------------------------------------------------------
\* Properties of the /detect session and confidence
\* ------------------------------------------------------------------------
\* the plates clean_and_validate_plate_text returns for what the text
\* recognizer can report
ValidatedPlates == { clean_and_validate_plate_text(r.text) : r \in Reads } \ { None }

Answered == response.status # 0

\* C17: after a response with success true the session holds the plate number
\* and the confidence of that response, and a plate in the session is always
\* one clean_and_validate_plate_text returned.
C17_SessionHoldsResponse ==
    /\ (Answered /\ response.success) =>
          /\ session.detected_plate = response.plate_number
          /\ session.detection_confidence = response.confidence
    /\ session.detected_plate # None => session.detected_plate \in ValidatedPlates

\* C17 witness: a successful detection of "B1234" has been answered and is
\* in the session
C17_Witness ==
    /\ Answered /\ response.success
    /\ session.detected_plate = << "B", "1", "2", "3", "4" >>
    /\ response.plate_number = session.detected_plate
    /\ session.detection_confidence = (9 * Scale) \div 10
    /\ session.detection_confidence = response.confidence

FailureMessages ==
    { "No image provided", "Empty image file", "Invalid image format",
      "No license plate detected", "Error processing image" }

\* C18: a request that does not succeed is answered with success false and
\* one of the fixed messages, under status 400, 200 or 500, and its step
\* leaves the session as it was.
C18_FailureKeepsSession ==
    [][ (response'.status # 0 /\ ~response'.success) =>
            /\ session' = session
            /\ response'.message \in FailureMessages
            /\ response'.status \in { 400, 200, 500 } ]_vars

\* C18 witness: a request detects nothing after an earlier request stored a
\* plate, and the plate is still in the session
C18_Witness ==
    /\ Answered /\ ~response.success
    /\ response.message = "No license plate detected"
    /\ session.detected_plate # None

C20_OcrRegionNotInitialized ==
    (~initialized /\ DirectReturned) => result = << None, 0 >>

\* ------------------------------------------------------------------------
\* Properties of preprocess_image inside ocr_region
\* ------------------------------------------------------------------------
\* C21: ocr_region always goes on from its call of preprocess_image to the
\* first configuration, with the cleaned image or, when a step of the
\* preprocessing raised, with the original input; and with the original
\* input its next step is the recognizer call on that input.
C21_PreprocessFailureGoesOn ==
    [][ /\ (opc = "idle" /\ opc' # "idle") =>
              /\ opc' = "cfg" /\ cfg' = 1
              /\ proc' \in { "cleaned", "original" }
        /\ (opc = "cfg" /\ proc = "original") =>
              /\ recognized'
              /\ cfg \in tried'
              /\ proc' = "original" ]_vars

\* C21 witness: the recognizer, given the original input after a failed
\* preprocessing, reported a valid token that ocr_region returned
C21_Witness ==
    /\ proc = "original"
    /\ opc = "ret"
    /\ 1 \in tried
    /\ oret # Pending
    /\ oret[1] # None

\* ------------------------------------------------------------------------
\* Properties of the threshold loop of /detect
\* ------------------------------------------------------------------------
\* C22: the learned detector is queried at 0.25, 0.15, 0.1, 0.05 in that
\* order, and once a threshold has returned one or more boxes no lower
\* threshold is queried.
C22_StopsAtFirstBoxes ==
    [][ /\ confidence_thresholds
              = << (25 * Scale) \div 100, (15 * Scale) \div 100,
                   (10 * Scale) \div 100, (5 * Scale) \div 100 >>
        /\ rpc' = "predict" => ti' = (IF rpc = "idle" THEN 1 ELSE ti + 1)
        /\ rpc = "box" => rpc' # "predict" ]_vars

\* ------------------------------------------------------------------------
\* Properties of the rotation fallback of ocr_region
\* ------------------------------------------------------------------------
InRotation == opc \in { "rot", "rtok" }

\* C23: the rotation fallback is entered if and only if no configuration
\* gave a valid candidate: it is entered only with none seen, and ocr_region
\* returns without it only with one seen.  It tries the angles -10, -5, 5, 10
\* in that order, returns the first valid token at or above the floor without
\* a call for a later angle, and an attempt that raises moves to the next
\* angle.
C23_RotationFallback ==
    [][ /\ Angles = << -10, -5, 5, 10 >>
        /\ (~InRotation /\ opc' = "rot") =>
              /\ seenFirst' = None
              /\ cfg' = 1
        /\ (opc \in { "cfg", "tok" } /\ opc' = "ret") => seenFirst' # None
        /\ (InRotation /\ opc' = "rot") => cfg' = cfg + 1
        /\ (opc = "rot" /\ opc' = "ret") => cfg = Len(Angles)
        /\ (opc = "rtok" /\ seenFirst' # None) =>
              /\ opc' = "ret"
              /\ oret' = << seenFirst', seenMax' >> ]_vars

\* ------------------------------------------------------------------------
\* Properties of the regions detect_plate hands to ocr_region
\* ------------------------------------------------------------------------
\* ocr_region is running on the region of the first of cands
InCandidateRegion == dpc = "cands" /\ opc # "idle"

\* C24: the region of a candidate (x, y, wc, hc) is the rectangle expanded by
\* 8 pixels on each side and clamped to the image, with
\* 0 <= x1 < x2 <= width and 0 <= y1 < y2 <= height of the resized image.
C24_CandidateRegionInside ==
    InCandidateRegion =>
        /\ Margin = 8
        /\ region.x1 = Max(0, Head(cands)[1] - 8)
        /\ region.y1 = Max(0, Head(cands)[2] - 8)
        /\ region.x2 = Min(image.w, Head(cands)[1] + Head(cands)[3] + 8)
        /\ region.y2 = Min(image.h, Head(cands)[2] + Head(cands)[4] + 8)
        /\ 0 <= region.x1 /\ region.x1 < region.x2 /\ region.x2 <= image.w
        /\ 0 <= region.y1 /\ region.y1 < region.y2 /\ region.y2 <= image.h

\* C24 witness: a candidate whose expansion was cut at the right and at the
\* bottom edge of the image
C24_Witness ==
    /\ InCandidateRegion
    /\ region.x1 > 0
    /\ region.x2 = image.w
    /\ region.x2 < Head(cands)[1] + Head(cands)[3] + Margin
    /\ region.y2 = image.h

\* ------------------------------------------------------------------------
\* Properties of the later-place table of clean_and_validate_plate_text
\* ------------------------------------------------------------------------
\* C25: in the corrected text every 'Q' after the first place has become '0',
\* as every 'O' has.
C25_QTreatedLikeO ==
    (f_pc = "corrected" /\ f_final_text # None) =>
        \A k \in DOMAIN f_clean_text :
            (k > 1 /\ f_clean_text[k] \in { "O", "Q" }) => f_final_text[k] = "0"

\* ------------------------------------------------------------------------
\* Properties of the tiled scan of detect_plate
\* ------------------------------------------------------------------------
\* the pixel (x, y) lies in the region t
Covers(t, x, y) == t.x1 <= x /\ x < t.x2 /\ t.y1 <= y /\ y < t.y2

\* every pixel of img lies in a region of ts
CoveredBy(ts, img) ==
    \A x \in 0 .. img.w - 1 : \A y \in 0 .. img.h - 1 :
        \E t \in ts : Covers(t, x, y)

\* lines 207-208: len(range(0, h_img, tile_h//2)), len(range(0, w_img, tile_w//2))
Rows(img) == (img.h + TileH(img) \div 2 - 1) \div (TileH(img) \div 2)
Cols(img) == (img.w + TileW(img) \div 2 - 1) \div (TileW(img) \div 2)

\* C26: both strides of the tiled scan are at least 1 and every call takes a
\* tile not scanned before, of the finitely many positions, so the scan ends;
\* every tile handed to ocr_region is a non-empty rectangle inside the image;
\* and a scan that ends without a tile reaching 0.9 has covered every pixel.
C26_TiledScan ==
    [][ /\ dpc = "tiles" =>
              /\ TileW(image) \div 2 >= 1
              /\ TileH(image) \div 2 >= 1
        /\ (dpc = "tiles" /\ opc = "idle" /\ opc' # "idle") =>
              /\ region' \notin scanned
              /\ Cardinality(scanned') <= Rows(image) * Cols(image)
              /\ 0 <= region'.x1 /\ region'.x1 < region'.x2 /\ region'.x2 <= image.w
              /\ 0 <= region'.y1 /\ region'.y1 < region'.y2 /\ region'.y2 <= image.h
        /\ (dpc = "tiles" /\ dpc' # "tiles" /\ best_conf' < HighConf) =>
              CoveredBy(scanned, image) ]_vars

\* C26 witness: the scan of the 1200 pixels wide image reached its sixth and
\* last tile without a plate
C26_Witness ==
    /\ dpc = "tiles"
    /\ opc = "ret"
    /\ image.w = MaxWidth
    /\ Cardinality(scanned) = 6
    /\ best_text = None
    /\ oret[1] = None

C29_SessionPlateFirst ==
    [][ add_n' # add_n =>
          /\ ~Falsy(session.detected_plate) =>
                /\ add_resp'.car_plate = session.detected_plate
                /\ ~AtEnd(session.detected_plate, PlateShape) => add_resp'.status = 400
                /\ add_resp'.status = 201 =>
                      car_rows' = car_rows \cup
                          { [ plate |-> session.detected_plate, vin |-> add_body'.vin ] }
          /\ add_resp'.status = 201 => session'.detected_plate = None
          /\ add_resp'.status # 201 => session' = session /\ car_rows' = car_rows ]_vars

\* a car registered under the session's plate although the body had another
C29_Witness ==
    /\ add_resp = [ status |-> 201, car_plate |-> << "T", "0", "9", "1" >> ]
    /\ add_body.car_plate = << " ", "c", "5", "6", "7", "8" >>
    /\ session.detected_plate = None
    /\ \E r \in car_rows : r.plate = << "T", "0", "9", "1" >>
    /\ ~\E r \in car_rows : r.plate = << "C", "5", "6", "7", "8" >>

\* ------------------------------------------------------------------------
\* C30: after any interleaving of book_appointment and
\* update_selected_appointment requests, two requests for the same date and
\* time served at the same time included, no two rows of appointment share
\* (Date, Time): a request for a taken slot is answered 409 and inserts or
\* changes nothing.
\* ------------------------------------------------------------------------
C30_NoDoubleBooking ==
    [][ /\ \A r1, r2 \in appointment' : r1.slot = r2.slot => r1.id = r2.id
        /\ \A c \in Clients :
              /\ (a_pc[c] = "idle" /\ a_pc'[c] = "book") =>
                    ~SlotTaken(appointment, a_req'[c].slot)
              /\ (a_pc[c] = "idle" /\ a_pc'[c] = "update") =>
                    ~SlotTakenByOther(appointment, a_req'[c].slot, a_req'[c].id)
              /\ (a_resp'[c] = 409 /\ a_resp[c] # 409) => appointment' = appointment ]_vars

====
